---------------------------- MODULE Spec2Model ----------------------------
(***************************************************************************)
(* A model of the battle game's Move packages: the commit-reveal arena     *)
(* (prototype::arena_pvp), the damage engine (prototype::battle and        *)
(* pokemon::pokemon_v1) and the stats record (pokemon::stats).             *)
(*                                                                         *)
(* u64 values (hp, damage) exceed the range of the model checker's         *)
(* integers, so they are kept as little-endian sequences of base-10^4      *)
(* limbs without leading zero limbs; every u64 operation of the source is  *)
(* computed exactly on that representation.                                *)
(***************************************************************************)
EXTENDS Integers, Sequences, FiniteSets, Bags, TLC

(***************************************************************************)
(* Exact natural-number arithmetic for the u64 fields                      *)
(***************************************************************************)

\* Radix of one limb of a u64 value.
Base == 10000

RECURSIVE BigNorm(_)
\* Strip the high zero limbs: the canonical form of a value.
BigNorm(a) ==
    IF a = <<>> THEN <<>>
    ELSE IF a[Len(a)] = 0 THEN BigNorm(SubSeq(a, 1, Len(a) - 1))
    ELSE a

RECURSIVE BigOfNat(_)
\* A small natural number as a u64 value.
BigOfNat(n) ==
    IF n = 0 THEN <<>> ELSE <<n % Base>> \o BigOfNat(n \div Base)

RECURSIVE BigMulCarry(_, _, _)
BigMulCarry(a, k, carry) ==
    IF a = <<>> THEN BigOfNat(carry)
    ELSE LET t == a[1] * k + carry
         IN  <<t % Base>> \o BigMulCarry(Tail(a), k, t \div Base)

\* a * k for a small natural k (k < 10^5).
BigMulSmall(a, k) == BigNorm(BigMulCarry(a, k, 0))

RECURSIVE BigDivRem(_, _, _)
\* The quotient's limbs, highest first, of a by a small natural d > 0: long
\* division from the highest limb down, rem being the remainder carried in.
BigDivRem(a, d, rem) ==
    IF a = <<>> THEN <<>>
    ELSE LET cur == rem * Base + a[Len(a)]
         IN  <<cur \div d>> \o BigDivRem(SubSeq(a, 1, Len(a) - 1), d, cur % d)

\* a / d, truncating, for a small natural d > 0.
BigDivSmall(a, d) ==
    LET q == BigDivRem(a, d, 0)
    IN  BigNorm([i \in 1..Len(q) |-> q[Len(q) + 1 - i]])

RECURSIVE BigAddCarry(_, _, _)
BigAddCarry(a, b, carry) ==
    IF a = <<>> /\ b = <<>> THEN BigOfNat(carry)
    ELSE LET x == IF a = <<>> THEN 0 ELSE a[1]
             y == IF b = <<>> THEN 0 ELSE b[1]
             t == x + y + carry
         IN  <<t % Base>> \o
             BigAddCarry(IF a = <<>> THEN <<>> ELSE Tail(a),
                         IF b = <<>> THEN <<>> ELSE Tail(b), t \div Base)

BigAdd(a, b) == BigNorm(BigAddCarry(a, b, 0))

RECURSIVE BigMulColumn(_, _, _, _)
\* The sum of the products a[j] * b[k + 1 - j] for j >= i: column k of the
\* schoolbook product, before the carries.
BigMulColumn(a, b, k, i) ==
    IF i > Len(a) \/ i > k THEN 0
    ELSE (IF k + 1 - i <= Len(b) THEN a[i] * b[k + 1 - i] ELSE 0)
         + BigMulColumn(a, b, k, i + 1)

\* a * b, for a and b of at most five limbs.
BigMul(a, b) ==
    IF a = <<>> \/ b = <<>> THEN <<>>
    ELSE BigNorm(BigMulCarry([k \in 1..(Len(a) + Len(b) - 1) |->
                                 BigMulColumn(a, b, k, 1)], 1, 0))

RECURSIVE BigLtFrom(_, _, _)
BigLtFrom(a, b, i) ==
    IF i = 0 THEN FALSE
    ELSE IF a[i] # b[i] THEN a[i] < b[i]
    ELSE BigLtFrom(a, b, i - 1)

\* a < b, for canonical a and b.
BigLt(a, b) ==
    IF Len(a) # Len(b) THEN Len(a) < Len(b) ELSE BigLtFrom(a, b, Len(a))

BigLeq(a, b) == a = b \/ BigLt(a, b)

RECURSIVE BigSubBorrow(_, _, _)
BigSubBorrow(a, b, borrow) ==
    IF a = <<>> THEN <<>>
    ELSE LET y == (IF b = <<>> THEN 0 ELSE b[1]) + borrow
             t == IF a[1] >= y THEN a[1] - y ELSE a[1] + Base - y
         IN  <<t>> \o BigSubBorrow(Tail(a), IF b = <<>> THEN <<>> ELSE Tail(b),
                                   IF a[1] >= y THEN 0 ELSE 1)

\* a - b, for b <= a.
BigSub(a, b) == BigNorm(BigSubBorrow(a, b, 0))

\* 2^64 = 18446744073709551616: a u64 operation whose result reaches it aborts.
TwoPow64 == <<1616, 955, 737, 6744, 1844>>

FitsU64(a) == BigLt(a, TwoPow64)

(***************************************************************************)
(* pokemon::stats                                                          *)
(***************************************************************************)

\* SCALING_FACTOR = 1_000_000_00 = 10^8.
SCALING_FACTOR == <<0, 0, 1>>

\* stats::new: the Stats record; hp is scaled by SCALING_FACTOR.
stats_new(hp, attack, defence, special_attack, special_defence, speed, level, types) ==
    [hp |-> BigMulSmall(SCALING_FACTOR, hp),
     attack |-> attack,
     defence |-> defence,
     special_attack |-> special_attack,
     special_defence |-> special_defence,
     speed |-> speed,
     level |-> level,
     types |-> types]

DecreaseHpNever(stat, value) == stat


DecreaseHpAndDefence(stat, value) ==
    IF BigLt(stat.hp, value)
    THEN [stat EXCEPT !.hp = <<>>, !.defence = @ - 1]
    ELSE [stat EXCEPT !.hp = BigSub(stat.hp, value), !.defence = @ - 1]


DecreaseHpWrapping(stat, value) ==
    [stat EXCEPT !.hp = IF BigLt(stat.hp, value) THEN BigSub(value, stat.hp)
                        ELSE BigSub(stat.hp, value)]

\* stats::decrease_hp: saturating subtraction.
decrease_hp(stat, value) ==
    IF BigLt(stat.hp, value)
    THEN [stat EXCEPT !.hp = <<>>]
    ELSE [stat EXCEPT !.hp = BigSub(stat.hp, value)]

(***************************************************************************)
(* pokemon::pokemon_v1                                                     *)
(***************************************************************************)

\* The abort codes of the damage engine, and "no abort".
NoAbort == "none"
EArithmetic == "ARITHMETIC_ERROR"
EIncorrectRandomValue == "EIncorrectRandomValue"
EIncorrectMovePower == "EIncorrectMovePower"
EWrongMove == "EWrongMove"

DamageRandomDividesFirst(level, attack, defence, move_power, random, scaling) ==
    LET lvl_mod  == ((2 * level * 1) \div 5) + 2
        scaled   == BigMulSmall(scaling, attack)
        atk_def  == BigDivSmall(scaled, defence)
        product  == BigMulSmall(atk_def, lvl_mod * move_power)
        result   == BigAdd(BigDivSmall(product, 50), BigMulSmall(scaling, 2))
        rnd_val  == BigMulSmall(scaling, random \div 255)
        total    == BigMul(result, rnd_val)
    IN  IF defence = 0 THEN [abort |-> EArithmetic, value |-> <<>>]
        ELSE IF ~(FitsU64(scaled) /\ FitsU64(product) /\ FitsU64(result)
                  /\ FitsU64(total))
        THEN [abort |-> EArithmetic, value |-> <<>>]
        ELSE [abort |-> NoAbort, value |-> BigDivSmall(BigDivSmall(total, Base), Base)]


DamageDivideLate(level, attack, defence, move_power, random, scaling) ==
    LET lvl_mod  == ((2 * level * 1) \div 5) + 2
        scaled   == BigMulSmall(scaling, attack)
        product  == BigMulSmall(scaled, lvl_mod * move_power)
        result   == BigAdd(BigDivSmall(BigDivSmall(product, defence), 50),
                           BigMulSmall(scaling, 2))
        rnd_mul  == BigMulSmall(scaling, random)
        rnd_val  == BigDivSmall(rnd_mul, 255)
        total    == BigMul(result, rnd_val)
    IN  IF defence = 0 THEN [abort |-> EArithmetic, value |-> <<>>]
        ELSE IF ~(FitsU64(scaled) /\ FitsU64(product) /\ FitsU64(result)
                  /\ FitsU64(rnd_mul) /\ FitsU64(total))
        THEN [abort |-> EArithmetic, value |-> <<>>]
        ELSE [abort |-> NoAbort, value |-> BigDivSmall(BigDivSmall(total, Base), Base)]


\* pokemon_v1::damage: every step in the source's order, truncating at each
\* division; a u64 overflow or a division by zero aborts.
damage(level, attack, defence, move_power, random, scaling) ==
    LET lvl_mod  == ((2 * level * 1) \div 5) + 2
        scaled   == BigMulSmall(scaling, attack)
        atk_def  == BigDivSmall(scaled, defence)
        product  == BigMulSmall(atk_def, lvl_mod * move_power)
        result   == BigAdd(BigDivSmall(product, 50), BigMulSmall(scaling, 2))
        rnd_mul  == BigMulSmall(scaling, random)
        rnd_val  == BigDivSmall(rnd_mul, 255)
        eff_val  == 1
        total    == BigMulSmall(BigMul(result, rnd_val), eff_val)
        \* x / scaling, for scaling = Base * Base
        scaledown(x) == BigDivSmall(BigDivSmall(x, Base), Base)
    IN  IF defence = 0 THEN [abort |-> EArithmetic, value |-> <<>>]
        ELSE IF ~(FitsU64(scaled) /\ FitsU64(product) /\ FitsU64(result)
                  /\ FitsU64(rnd_mul) /\ FitsU64(total))
        THEN [abort |-> EArithmetic, value |-> <<>>]
        ELSE [abort |-> NoAbort, value |-> scaledown(total)]

\* pokemon_v1::physical_damage.
physical_damage(attacker, defender, move_power, random) ==
    IF ~(random >= 217 /\ random <= 255)
    THEN [abort |-> EIncorrectRandomValue, value |-> <<>>]
    ELSE IF ~(move_power > 0)
    THEN [abort |-> EIncorrectMovePower, value |-> <<>>]
    ELSE damage(attacker.level, attacker.attack, defender.defence,
                move_power, random, SCALING_FACTOR)

(***************************************************************************)
(* prototype::battle                                                       *)
(***************************************************************************)

\* Same type attack bonus, in tenths.
STAB_BONUS == 15

\* Power of the moves 0 (Rock), 1 (Paper), 2 (Scissors); 1-indexed here.
MOVES_POWER == <<40, 60, 80>>

\* Effectiveness in tenths: first index the move, second the defender's type.
MOVES_EFFECTIVENESS == << <<10, 10, 20>>, <<10, 10, 5>>, <<5, 20, 10>> >>

\* Scaling of the effectiveness and of the bonus.
EFF_SCALING == 10

AttackEffectivenessByAttacker(attacker, defender, move, rng) ==
    IF ~(move < 3) THEN [abort |-> EWrongMove, defender |-> defender, damage |-> <<>>]
    ELSE
    LET attacker_type == attacker.types[1]
        move_power    == MOVES_POWER[move + 1]
        raw           == physical_damage(attacker, defender, move_power, rng)
        effectiveness == MOVES_EFFECTIVENESS[move + 1][attacker_type + 1]
        eff_mul       == BigMulSmall(raw.value, effectiveness)
        after_eff     == BigDivSmall(eff_mul, EFF_SCALING)
        stab_mul      == BigMulSmall(after_eff, STAB_BONUS)
        raw_damage    == IF move = attacker_type
                         THEN BigDivSmall(stab_mul, EFF_SCALING)
                         ELSE after_eff
    IN  IF raw.abort # NoAbort
        THEN [abort |-> raw.abort, defender |-> defender, damage |-> <<>>]
        ELSE IF ~FitsU64(eff_mul) \/ (move = attacker_type /\ ~FitsU64(stab_mul))
        THEN [abort |-> EArithmetic, defender |-> defender, damage |-> <<>>]
        ELSE [abort |-> NoAbort,
              defender |-> decrease_hp(defender, raw_damage),
              damage |-> raw_damage]


\* battle::attack: the defender's stats after the hit, or the abort.
attack(attacker, defender, move, rng) ==
    IF ~(move < 3) THEN [abort |-> EWrongMove, defender |-> defender, damage |-> <<>>]
    ELSE
    LET attacker_type == attacker.types[1]
        defender_type == defender.types[1]
        move_power    == MOVES_POWER[move + 1]
        raw           == physical_damage(attacker, defender, move_power, rng)
        effectiveness == MOVES_EFFECTIVENESS[move + 1][defender_type + 1]
        eff_mul       == BigMulSmall(raw.value, effectiveness)
        after_eff     == BigDivSmall(eff_mul, EFF_SCALING)
        stab_mul      == BigMulSmall(after_eff, STAB_BONUS)
        raw_damage    == IF move = attacker_type
                         THEN BigDivSmall(stab_mul, EFF_SCALING)
                         ELSE after_eff
    IN  IF raw.abort # NoAbort
        THEN [abort |-> raw.abort, defender |-> defender, damage |-> <<>>]
        ELSE IF ~FitsU64(eff_mul) \/ (move = attacker_type /\ ~FitsU64(stab_mul))
        THEN [abort |-> EArithmetic, defender |-> defender, damage |-> <<>>]
        ELSE [abort |-> NoAbort,
              defender |-> decrease_hp(defender, raw_damage),
              damage |-> raw_damage]

(***************************************************************************)
(* sui::hash::blake2b256, std::option, addresses                           *)
(***************************************************************************)

\* The chaining value of a byte vector: the sum of one term per position, each
\* a product of the byte and its index.  (The cardinality of a bag is the sum of
\* its counts; every count here is at least 1.)
Absorb(bytes) ==
    BagCardinality([i \in 1..Len(bytes) |->
                       1 + (((bytes[i] + 7 * i) * (bytes[i] + 31 * i + 3)) % 32749)])
    % 32749

\* n output bytes from the chaining value x.
Squeeze(x, n) ==
    [i \in 1..n |-> ((((x + 3 * i) * (x + 5 * i + 1)) % 65537) \div 7) % 256]

\* The digest of a byte vector: 32 bytes, a fixed function of the whole
\* input.  The library's compression function is outside the repository; this
\* deterministic stand-in keeps what the arena relies on: the digest length,
\* determinism, and dependence on every input byte.
blake2b256(bytes) == Squeeze(Absorb(bytes), 32)

\* std::option: an option is a vector of at most one element.
option_none == <<>>
option_some(x) == <<x>>
is_none(o) == Len(o) = 0
is_some(o) == Len(o) = 1
borrow(o) == o[1]

\* bcs::to_bytes of an address: 32 bytes, big-endian.
address_to_bytes(addr) == [i \in 1..32 |-> IF i = 32 THEN addr ELSE 0]

\* The accounts that send transactions: the two of the test and a stranger.
ALICE == 1
BOB == 2
CAROL == BOB + 1
Senders == {ALICE, BOB, CAROL}

(***************************************************************************)
(* prototype::arena_pvp                                                    *)
(***************************************************************************)

EArenaNotReady == "EArenaNotReady"
EArenaOver == "EArenaOver"
EPlayerOneNotReady == "EPlayerOneNotReady"
EMoveAlreadySubmitted == "EMoveAlreadySubmitted"
EUnknownSender == "EUnknownSender"
EInvalidCommitment == "EInvalidCommitment"
EYouCantTrickMe == "EYouCantTrickMe"
\* option::fill on an option that already holds a value.
EOptionIsSet == "EOPTION_IS_SET"
\* vector::borrow past the end of the vector.
EIndexOutOfBounds == "EINDEX_OUT_OF_BOUNDS"

SmoothWide(value) ==
    LET v == ((value % 60) + 60) \div 2
    IN  IF v < 10 THEN 10 ELSE v


\* Smooth a value in the range [10; 50].
smooth(value) ==
    LET v == ((value % 50) + 50) \div 2
    IN  IF v < 10 THEN 10 ELSE v

\* Derive a new seed from a previous seed and a path.
derive(seed, path) == blake2b256(Append(seed, path))

\* Generate stats for a Pokemon from a seed (bytes 0..6 of the seed).
generate_stats(seed) ==
    LET level == 10
    IN  stats_new(10 + smooth(seed[1]),
                  smooth(seed[2]),
                  smooth(seed[3]),
                  smooth(seed[4]),
                  smooth(seed[5]),
                  smooth(seed[6]),
                  level,
                  <<seed[7] % 3>>)

HitRngUnreduced(seed, path, round) ==
    LET digest == derive(seed, path)
    IN  IF round >= Len(digest)
        THEN [abort |-> EIndexOutOfBounds, value |-> 0]
        ELSE [abort |-> NoAbort, value |-> digest[round + 1]]


\* Generate a random number for a hit: the byte of derive(seed, path) at index
\* round, reduced into the hit range; aborts when round is past the digest.
hit_rng(seed, path, round) ==
    LET digest == derive(seed, path)
    IN  IF round >= Len(digest)
        THEN [abort |-> EIndexOutOfBounds, value |-> 0]
        ELSE [abort |-> NoAbort,
              value |-> (digest[round + 1] % (255 - 217)) + 217]

is_player_one(arena, player) == player = arena.player_one.account

IsPlayerTwoNever(arena, player) == FALSE


is_player_two(arena, player) ==
    is_some(arena.player_two) /\ player = borrow(arena.player_two).account

\* Create a new arena: the state a `new` transaction shares.
new_(addr, sender) ==
    LET seed == blake2b256(address_to_bytes(addr))
        player_stats == generate_stats(derive(seed, 0))
    IN  [id |-> addr,
         seed |-> seed,
         round |-> 0,
         player_one |-> [starting_hp |-> player_stats.hp,
                         stats |-> player_stats,
                         account |-> sender,
                         next_attack |-> option_none,
                         next_round |-> 0],
         player_two |-> option_none,
         winner |-> option_none]

\* The result of an entry function: the arena as the call left it, the abort
\* code (NoAbort when it returned) and the events it emitted.
Aborted(arena, code) == [arena |-> arena, abort |-> code, events |-> <<>>]
Returned(arena, events) == [arena |-> arena, abort |-> NoAbort, events |-> events]

JoinSetsWinner(arena, sender) ==
    IF ~(sender # arena.player_one.account) THEN Aborted(arena, EYouCantTrickMe)
    ELSE
    LET stats == generate_stats(derive(arena.seed, 1))
        player == [starting_hp |-> stats.hp,
                   stats |-> stats,
                   account |-> sender,
                   next_attack |-> option_none,
                   next_round |-> 0]
    IN  IF is_some(arena.player_two) THEN Aborted(arena, EOptionIsSet)
        ELSE Returned([arena EXCEPT !.player_two = option_some(player),
                                     !.winner = option_some(sender)],
                      <<[type |-> "PlayerJoined", arena |-> arena.id]>>)


JoinFillFirst(arena, sender) ==
    LET stats == generate_stats(derive(arena.seed, 1))
        player == [starting_hp |-> stats.hp,
                   stats |-> stats,
                   account |-> sender,
                   next_attack |-> option_none,
                   next_round |-> 0]
    IN  IF is_some(arena.player_two) THEN Aborted(arena, EOptionIsSet)
        ELSE IF ~(sender # arena.player_one.account)
        THEN Aborted(arena, EYouCantTrickMe)
        ELSE Returned([arena EXCEPT !.player_two = option_some(player)],
                      <<[type |-> "PlayerJoined", arena |-> arena.id]>>)


JoinStatsFromSender(arena, sender) ==
    IF ~(sender # arena.player_one.account) THEN Aborted(arena, EYouCantTrickMe)
    ELSE
    LET stats == generate_stats(derive(arena.seed, sender))
        player == [starting_hp |-> stats.hp,
                   stats |-> stats,
                   account |-> sender,
                   next_attack |-> option_none,
                   next_round |-> 0]
    IN  IF is_some(arena.player_two) THEN Aborted(arena, EOptionIsSet)
        ELSE Returned([arena EXCEPT !.player_two = option_some(player)],
                      <<[type |-> "PlayerJoined", arena |-> arena.id]>>)


\* Join an existing arena and start the battle.
join(arena, sender) ==
    IF ~(sender # arena.player_one.account) THEN Aborted(arena, EYouCantTrickMe)
    ELSE
    LET stats == generate_stats(derive(arena.seed, 1))
        player == [starting_hp |-> stats.hp,
                   stats |-> stats,
                   account |-> sender,
                   next_attack |-> option_none,
                   next_round |-> 0]
    IN  IF is_some(arena.player_two) THEN Aborted(arena, EOptionIsSet)
        ELSE Returned([arena EXCEPT !.player_two = option_some(player)],
                      <<[type |-> "PlayerJoined", arena |-> arena.id]>>)

JoinArenaAlwaysJoins(arena, address) ==
    LET res == join(arena, address)
    IN  IF res.abort # NoAbort
        THEN [arena |-> arena, outcome |-> "Could not join arena"]
        ELSE [arena |-> res.arena, outcome |-> "Joined"]

\* The client's joinArena, run by the account `address` on the arena it
\* fetched: with playerTwo present it sends no transaction, and goes on as a
\* rejoin if playerTwo is the account itself; otherwise it sends join.
joinArena(arena, address) ==
    IF is_some(arena.player_two)
    THEN IF borrow(arena.player_two).account # address
         THEN [arena |-> arena, outcome |-> "Arena is full"]
         ELSE [arena |-> arena, outcome |-> "Rejoined"]
    ELSE LET res == join(arena, address)
         IN  IF res.abort # NoAbort
             THEN [arena |-> arena, outcome |-> "Could not join arena"]
             ELSE [arena |-> res.arena, outcome |-> "Joined"]


CanAlwaysSubmit(player) == TRUE

\* A player may submit a move only while none is stored.
can_submit(player) == is_none(player.next_attack)

StoreCommitmentSwapped(arena, is_p1, commitment) ==
    IF is_p1
    THEN [arena EXCEPT !.player_two[1].next_attack = option_some(commitment)]
    ELSE [arena EXCEPT !.player_one.next_attack = option_some(commitment)]

\* The arena with the hashed move stored for player one or player two.
store_commitment(arena, is_p1, commitment) ==
    IF is_p1
    THEN [arena EXCEPT !.player_one.next_attack = option_some(commitment)]
    ELSE [arena EXCEPT !.player_two[1].next_attack = option_some(commitment)]

CommitMoveStoresFirst(arena, commitment, sender) ==
    LET player == sender
        event  == <<[type |-> "PlayerCommit", arena |-> arena.id]>>
    IN  IF player = arena.player_one.account
        THEN IF ~can_submit(arena.player_one)
             THEN Aborted(store_commitment(arena, TRUE, commitment),
                          EMoveAlreadySubmitted)
             ELSE Returned(store_commitment(arena, TRUE, commitment), event)
        ELSE IF player = borrow(arena.player_two).account
        THEN IF ~can_submit(borrow(arena.player_two))
             THEN Aborted(store_commitment(arena, FALSE, commitment),
                          EMoveAlreadySubmitted)
             ELSE Returned(store_commitment(arena, FALSE, commitment), event)
        ELSE Aborted(arena, EUnknownSender)

\* commit, after its two preconditions: who is committing, and the store.
commit_move(arena, commitment, sender) ==
    LET player == sender
        event  == <<[type |-> "PlayerCommit", arena |-> arena.id]>>
    IN  IF player = arena.player_one.account
        THEN IF ~can_submit(arena.player_one)
             THEN Aborted(arena, EMoveAlreadySubmitted)
             ELSE Returned(store_commitment(arena, TRUE, commitment), event)
        ELSE IF player = borrow(arena.player_two).account
        THEN IF ~can_submit(borrow(arena.player_two))
             THEN Aborted(arena, EMoveAlreadySubmitted)
             ELSE Returned(store_commitment(arena, FALSE, commitment), event)
        ELSE Aborted(arena, EUnknownSender)

CommitNoOverCheck(arena, commitment, sender) ==
    IF ~is_some(arena.player_two) THEN Aborted(arena, EArenaNotReady)
    ELSE commit_move(arena, commitment, sender)

\* Attack the other player: store the hashed move.
commit(arena, commitment, sender) ==
    IF ~is_none(arena.winner) THEN Aborted(arena, EArenaOver)
    ELSE IF ~is_some(arena.player_two) THEN Aborted(arena, EArenaNotReady)
    ELSE commit_move(arena, commitment, sender)

WithPlayersDropsAttacker(arena, is_p1, attacker, defender) ==
    IF is_p1
    THEN [arena EXCEPT !.player_two = option_some(defender)]
    ELSE [arena EXCEPT !.player_one = defender]

\* The arena with the attacker and the defender of a reveal written back.
with_players(arena, is_p1, attacker, defender) ==
    IF is_p1
    THEN [arena EXCEPT !.player_one = attacker, !.player_two = option_some(defender)]
    ELSE [arena EXCEPT !.player_two = option_some(attacker), !.player_one = defender]

NextRoundCondAlways(defender, round) == TRUE

NextRoundCondLoose(defender, round) == is_none(defender.next_attack)

\* If both players have revealed, then the round is over: the condition under
\* which the revealing player bumps the round.
next_round_cond(defender, round) ==
    is_none(defender.next_attack) /\ (defender.next_round = round + 1)

RoundAlwaysMatches(attacker, round) == TRUE

\* The player has not revealed in this round yet.
round_matches(attacker, round) == attacker.next_round = round

CommitmentAlwaysMatches(commitment, attacker) == TRUE

\* The hash of the move and the salt is the stored commitment.
commitment_matches(commitment, attacker) ==
    commitment = borrow(attacker.next_attack)

RevealHitDefenderWins(arena, move, commitment, is_p1, attacker, defender) ==
    LET rng == hit_rng(commitment, 2, arena.round)
        hit == attack(attacker.stats, defender.stats, move, rng.value)
    IN
    IF rng.abort # NoAbort THEN Aborted(arena, rng.abort)
    ELSE IF hit.abort # NoAbort THEN Aborted(arena, hit.abort)
    ELSE
    LET defender1 == [defender EXCEPT !.stats = hit.defender]
        attacker1 == [attacker EXCEPT !.next_attack = option_none,
                                      !.next_round = arena.round + 1]
        cond      == next_round_cond(defender1, arena.round)
        arena1    == with_players(arena, is_p1, attacker1, defender1)
        arena2    == IF defender1.stats.hp = <<>>
                     THEN [arena1 EXCEPT !.winner = option_some(defender1.account)]
                     ELSE arena1
        arena3    == IF cond THEN [arena2 EXCEPT !.round = arena.round + 1]
                     ELSE arena2
    IN  \* round and next_round are u8: round + 1 aborts past 255
        IF arena.round + 1 > 255
        THEN Aborted(with_players(arena, is_p1,
                                  [attacker EXCEPT !.next_attack = option_none],
                                  defender1), EArithmetic)
        ELSE Returned(arena3,
                      <<[type |-> "PlayerReveal", arena |-> arena.id, move |-> move],
                        [type |-> "RoundResult", arena |-> arena.id,
                         attacker_hp |-> attacker1.stats.hp,
                         defender_hp |-> defender1.stats.hp]>>)

RevealHitClearsDefender(arena, move, commitment, is_p1, attacker, defender) ==
    LET rng == hit_rng(commitment, 2, arena.round)
        hit == attack(attacker.stats, defender.stats, move, rng.value)
    IN
    IF rng.abort # NoAbort THEN Aborted(arena, rng.abort)
    ELSE IF hit.abort # NoAbort THEN Aborted(arena, hit.abort)
    ELSE
    LET defender1 == [defender EXCEPT !.stats = hit.defender,
                                      !.next_attack = option_none]
        attacker1 == [attacker EXCEPT !.next_attack = option_none,
                                      !.next_round = arena.round + 1]
        cond      == next_round_cond(defender1, arena.round)
        arena1    == with_players(arena, is_p1, attacker1, defender1)
        arena2    == IF defender1.stats.hp = <<>>
                     THEN [arena1 EXCEPT !.winner = option_some(attacker1.account)]
                     ELSE arena1
        arena3    == IF cond THEN [arena2 EXCEPT !.round = arena.round + 1]
                     ELSE arena2
    IN  \* round and next_round are u8: round + 1 aborts past 255
        IF arena.round + 1 > 255
        THEN Aborted(with_players(arena, is_p1,
                                  [attacker EXCEPT !.next_attack = option_none],
                                  defender1), EArithmetic)
        ELSE Returned(arena3,
                      <<[type |-> "PlayerReveal", arena |-> arena.id, move |-> move],
                        [type |-> "RoundResult", arena |-> arena.id,
                         attacker_hp |-> attacker1.stats.hp,
                         defender_hp |-> defender1.stats.hp]>>)

RevealHitClampsMove(arena, move, commitment, is_p1, attacker, defender) ==
    LET rng == hit_rng(commitment, 2, arena.round)
        hit == attack(attacker.stats, defender.stats,
                      IF move < 3 THEN move ELSE 2, rng.value)
    IN
    IF rng.abort # NoAbort THEN Aborted(arena, rng.abort)
    ELSE IF hit.abort # NoAbort THEN Aborted(arena, hit.abort)
    ELSE
    LET defender1 == [defender EXCEPT !.stats = hit.defender]
        attacker1 == [attacker EXCEPT !.next_attack = option_none,
                                      !.next_round = arena.round + 1]
        cond      == next_round_cond(defender1, arena.round)
        arena1    == with_players(arena, is_p1, attacker1, defender1)
        arena2    == IF defender1.stats.hp = <<>>
                     THEN [arena1 EXCEPT !.winner = option_some(attacker1.account)]
                     ELSE arena1
        arena3    == IF cond THEN [arena2 EXCEPT !.round = arena.round + 1]
                     ELSE arena2
    IN  \* round and next_round are u8: round + 1 aborts past 255
        IF arena.round + 1 > 255
        THEN Aborted(with_players(arena, is_p1,
                                  [attacker EXCEPT !.next_attack = option_none],
                                  defender1), EArithmetic)
        ELSE Returned(arena3,
                      <<[type |-> "PlayerReveal", arena |-> arena.id, move |-> move],
                        [type |-> "RoundResult", arena |-> arena.id,
                         attacker_hp |-> attacker1.stats.hp,
                         defender_hp |-> defender1.stats.hp]>>)

RevealHitNoWinner(arena, move, commitment, is_p1, attacker, defender) ==
    LET rng == hit_rng(commitment, 2, arena.round)
        hit == attack(attacker.stats, defender.stats, move, rng.value)
    IN
    IF rng.abort # NoAbort THEN Aborted(arena, rng.abort)
    ELSE IF hit.abort # NoAbort THEN Aborted(arena, hit.abort)
    ELSE
    LET defender1 == [defender EXCEPT !.stats = hit.defender]
        attacker1 == [attacker EXCEPT !.next_attack = option_none,
                                      !.next_round = arena.round + 1]
        cond      == next_round_cond(defender1, arena.round)
        arena1    == with_players(arena, is_p1, attacker1, defender1)
        arena3    == IF cond THEN [arena1 EXCEPT !.round = arena.round + 1]
                     ELSE arena1
    IN  IF arena.round + 1 > 255
        THEN Aborted(with_players(arena, is_p1,
                                  [attacker EXCEPT !.next_attack = option_none],
                                  defender1), EArithmetic)
        ELSE Returned(arena3,
                      <<[type |-> "PlayerReveal", arena |-> arena.id, move |-> move],
                        [type |-> "RoundResult", arena |-> arena.id,
                         attacker_hp |-> attacker1.stats.hp,
                         defender_hp |-> defender1.stats.hp]>>)


\* reveal, once the commitment is verified: the hit, the attacker's
\* bookkeeping, the winner, the round and the events.
reveal_hit(arena, move, commitment, is_p1, attacker, defender) ==
    LET rng == hit_rng(commitment, 2, arena.round)
        hit == attack(attacker.stats, defender.stats, move, rng.value)
    IN
    IF rng.abort # NoAbort THEN Aborted(arena, rng.abort)
    ELSE IF hit.abort # NoAbort THEN Aborted(arena, hit.abort)
    ELSE
    LET defender1 == [defender EXCEPT !.stats = hit.defender]
        attacker1 == [attacker EXCEPT !.next_attack = option_none,
                                      !.next_round = arena.round + 1]
        cond      == next_round_cond(defender1, arena.round)
        arena1    == with_players(arena, is_p1, attacker1, defender1)
        arena2    == IF defender1.stats.hp = <<>>
                     THEN [arena1 EXCEPT !.winner = option_some(attacker1.account)]
                     ELSE arena1
        arena3    == IF cond THEN [arena2 EXCEPT !.round = arena.round + 1]
                     ELSE arena2
    IN  \* round and next_round are u8: round + 1 aborts past 255
        IF arena.round + 1 > 255
        THEN Aborted(with_players(arena, is_p1,
                                  [attacker EXCEPT !.next_attack = option_none],
                                  defender1), EArithmetic)
        ELSE Returned(arena3,
                      <<[type |-> "PlayerReveal", arena |-> arena.id, move |-> move],
                        [type |-> "RoundResult", arena |-> arena.id,
                         attacker_hp |-> attacker1.stats.hp,
                         defender_hp |-> defender1.stats.hp]>>)

\* reveal, after its two preconditions: the sender's role and the checks of
\* the commitment.
reveal_move(arena, move, salt, sender) ==
    IF ~is_player_one(arena, sender) /\ ~is_player_two(arena, sender)
    THEN Aborted(arena, EUnknownSender)
    ELSE
    LET is_p1    == is_player_one(arena, sender)
        attacker == IF is_p1 THEN arena.player_one ELSE borrow(arena.player_two)
        defender == IF is_p1 THEN borrow(arena.player_two) ELSE arena.player_one
        commitment == blake2b256(<<move>> \o salt)
    IN
    IF ~is_some(attacker.next_attack) THEN Aborted(arena, EPlayerOneNotReady)
    ELSE IF ~round_matches(attacker, arena.round)
    THEN Aborted(arena, EMoveAlreadySubmitted)
    ELSE IF ~commitment_matches(commitment, attacker)
    THEN Aborted(arena, EInvalidCommitment)
    ELSE reveal_hit(arena, move, commitment, is_p1, attacker, defender)

RevealNoOverCheck(arena, move, salt, sender) ==
    IF ~is_some(arena.player_two) THEN Aborted(arena, EArenaNotReady)
    ELSE reveal_move(arena, move, salt, sender)

\* Each of the players needs to reveal their move; so that the round can be
\* calculated. The last player to reveal bumps the round.
reveal(arena, move, salt, sender) ==
    IF ~is_some(arena.player_two) THEN Aborted(arena, EArenaNotReady)
    ELSE IF ~is_none(arena.winner) THEN Aborted(arena, EArenaOver)
    ELSE reveal_move(arena, move, salt, sender)

(***************************************************************************)
(* The arena as a state machine: one shared arena, transactions applied    *)
(* one at a time                                                           *)
(***************************************************************************)

\* Rounds the model plays: no call is made once arena.round reaches it.
MaxRound == 2

\* The addresses a new arena may get (tx_context::fresh_object_address).
FreshAddresses == {40, 59}

\* The salts of the test (b"this_is_salt") and of the command-line client.
SALT == <<116, 104, 105, 115, 95, 105, 115, 95, 115, 97, 108, 116>>
CLI_SALT == <<1, 2, 3, 4>>
Salts == {SALT, CLI_SALT}

\* The move bytes callers pass: the three moves and one that is no move.
Moves == 0..3

\* The digest a caller commits to for a move and a salt.
hashed_move(move, salt) == blake2b256(<<move>> \o salt)

\* The commitments callers submit, made with the test's salt: for two of the
\* moves and for the byte that is no move.
CommittedMoves == {0, 2, 3}
Commitments == {hashed_move(m, SALT) : m \in CommittedMoves}

VARIABLES
    arena,      \* the shared Arena object
    last,       \* the last transaction: entry function, sender, abort code
    emitted,    \* the events the last transaction emitted
    revealed,   \* history: how many reveals returned, per <<account, round>>
    cli,        \* the command-line client the players run, if they run one
    clients,    \* per player running the client: its place in fullRound
    submitted   \* history: the commitments each client submitted

vars == <<arena, last, emitted, revealed, cli, clients, submitted>>

\* The players that may run the command-line client: the creator of the arena
\* and the one that joins.
Clients == {ALICE, BOB}

\* No command-line client is running: the transactions come from any caller.
NoClients ==
    /\ cli = "none"
    /\ clients = [c \in Clients |-> [pc |-> "off"]]
    /\ submitted = [c \in Clients |-> << >>]

Init ==
    /\ \E addr \in FreshAddresses : arena = new_(addr, ALICE)
    /\ last = [op |-> "new", sender |-> ALICE, abort |-> NoAbort]
    /\ emitted = <<[type |-> "ArenaCreated", arena |-> arena.id]>>
    /\ revealed = << >>
    /\ NoClients

\* One transaction: its effect on the arena, and what an observer sees of it.
Apply(op, sender, res) ==
    /\ arena' = res.arena
    /\ last' = [op |-> op, sender |-> sender, abort |-> res.abort]
    /\ emitted' = res.events
    /\ revealed' = IF op = "reveal" /\ res.abort = NoAbort
                   THEN LET key == <<sender, arena.round>>
                        IN  IF key \in DOMAIN revealed
                            THEN [revealed EXCEPT ![key] = @ + 1]
                            ELSE revealed @@ (key :> 1)
                   ELSE revealed
    /\ UNCHANGED <<cli, clients, submitted>>

\* One transaction of the rounds the model plays.
Execute(op, sender, res) ==
    /\ arena.round < MaxRound
    /\ Apply(op, sender, res)

Join ==
    \E sender \in Senders :
        Execute("join", sender, join(arena, sender))

Commit ==
    \E sender \in Senders, commitment \in Commitments :
        Execute("commit", sender, commit(arena, commitment, sender))

Reveal ==
    \E sender \in Senders, move \in Moves, salt \in Salts :
        Execute("reveal", sender, reveal(arena, move, salt, sender))

Next == Join \/ Commit \/ Reveal

Spec == Init /\ [][Next]_vars

(***************************************************************************)
(* The command-line client: commit, reveal and fullRound.  Two versions    *)
(* are in the repository: one is told of the arena's events by a           *)
(* subscription ("events"), the other polls the arena object ("polling").  *)
(***************************************************************************)

\* The bytes the client hashes for a move: the move, then the salt.
cli_commit_data(move) == <<move, 1, 2, 3, 4>>

CliCommitSaltFirst(a, move, sender) ==
    commit(a, blake2b256(<<1, 2, 3, 4, move>>), sender)

\* commit(arena, move): the commit transaction with the digest of the data.
cli_commit(a, move, sender) ==
    commit(a, blake2b256(cli_commit_data(move)), sender)

\* reveal(arena, move): the reveal transaction with the move and the salt.
cli_reveal(a, move, sender) ==
    reveal(a, move, <<1, 2, 3, 4>>, sender)

\* The opponent a client passes to fullRound.
OpponentAccount(c) == IF c = ALICE THEN BOB ELSE ALICE

\* The length of the arena's history the polling client reads: one entry per
\* round both players have revealed in.
history_length(a) == a.round

P2MovedAnySender(c, sender, events) ==
    \E i \in 1..Len(events) : events[i].type = "PlayerCommit"

\* The first listener of fullRound ("events"): a PlayerCommit event sent by
\* the opponent.
p2_moved(c, sender, events) ==
    /\ sender = OpponentAccount(c)
    /\ \E i \in 1..Len(events) : events[i].type = "PlayerCommit"

\* The second listener of fullRound ("events"): round_res after the events of
\* a transaction; any RoundResult event replaces it.  "over" stands for a
\* result with an hp of 0, "open" for one without.
round_res(old, events) ==
    LET results == {i \in 1..Len(events) : events[i].type = "RoundResult"}
    IN  IF results = {} THEN old
        ELSE LET e == events[CHOOSE i \in results : \A j \in results : j <= i]
             IN  IF e.attacker_hp = <<>> \/ e.defender_hp = <<>> THEN "over" ELSE "open"

\* The first listener of fullRound ("polling"): the opponent's nextAttack is
\* set in the arena fetched.
p2Moved(c, a) ==
    LET player == IF a.player_one.account = OpponentAccount(c)
                  THEN a.player_one ELSE borrow(a.player_two)
    IN  is_some(player.next_attack)

\* The second listener of fullRound ("polling"): a winner, or one more entry
\* in the history than in initialState.
p2Revealed(a, initial_history) ==
    is_some(a.winner) \/ history_length(a) = initial_history + 1

\* A client entering fullRound.
ClientStart ==
    [pc |-> "listen", n |-> 0, move |-> 0, sub |-> "none",
     moved |-> FALSE, result |-> "none", initial_history |-> 0]

\* The arena is created and joined; both players run the same client and
\* enter fullRound.
ClientInit ==
    /\ \E addr \in FreshAddresses :
          LET joined == join(new_(addr, ALICE), BOB)
          IN  /\ arena = joined.arena
              /\ emitted = joined.events
    /\ last = [op |-> "join", sender |-> BOB, abort |-> NoAbort]
    /\ revealed = << >>
    /\ cli \in {"events", "polling"}
    /\ clients = [c \in Clients |-> ClientStart]
    /\ submitted = [c \in Clients |-> << >>]

\* What a subscribed client hears of a transaction of sender ("events").
Heard(client, c, sender, events) ==
    IF cli # "events" THEN client
    ELSE [client EXCEPT
            !.moved = @ \/ (client.sub = "move" /\ p2_moved(c, sender, events)),
            !.result = IF client.sub = "round" THEN round_res(@, events) ELSE @]

\* A transaction of the client c: signAndExecute, whose result fullRound
\* ignores; c goes on to pc with the move it holds.
Transact(c, op, res, pc, move) ==
    /\ arena.round < MaxRound
    /\ arena' = res.arena
    /\ last' = [op |-> op, sender |-> c, abort |-> res.abort]
    /\ emitted' = res.events
    /\ revealed' = IF op = "reveal" /\ res.abort = NoAbort
                   THEN LET key == <<c, arena.round>>
                        IN  IF key \in DOMAIN revealed
                            THEN [revealed EXCEPT ![key] = @ + 1]
                            ELSE revealed @@ (key :> 1)
                   ELSE revealed
    /\ clients' = [d \in Clients |->
                     LET heard == Heard(clients[d], d, c, res.events)
                     IN  IF d = c THEN [heard EXCEPT !.pc = pc, !.move = move]
                         ELSE heard]
    /\ UNCHANGED cli

\* A step of the client c alone.
Local(c, client) ==
    /\ clients' = [clients EXCEPT ![c] = client]
    /\ UNCHANGED <<arena, last, emitted, revealed, cli, submitted>>

\* fullRound starts to listen for the opponent's move.
ListenMove(c) ==
    /\ clients[c].pc = "listen"
    /\ clients[c].n <= MaxRound
    /\ Local(c, [clients[c] EXCEPT !.pc = "commit", !.sub = "move", !.moved = FALSE])

\* chooseMove, then the commit transaction.
SubmitCommit(c) ==
    /\ clients[c].pc = "commit"
    /\ \E move \in 0..2 :
          LET res == cli_commit(arena, move, c)
          IN  /\ Transact(c, "commit", res, "await_moved", move)
              /\ submitted' = [submitted EXCEPT ![c] =
                                  Append(@, [salt |-> Tail(cli_commit_data(move)),
                                             n |-> clients[c].n,
                                             round |-> arena.round,
                                             abort |-> res.abort])]

\* The wait for the opponent's move is over.
AwaitMoved(c) ==
    /\ clients[c].pc = "await_moved"
    /\ clients[c].moved
    /\ Local(c, [clients[c] EXCEPT !.pc = "listen_round", !.sub = "none"])

\* fullRound starts to listen for the result of the round.
ListenRound(c) ==
    /\ clients[c].pc = "listen_round"
    /\ Local(c, [clients[c] EXCEPT !.pc = "reveal", !.sub = "round", !.result = "none"])

\* The reveal transaction.
SubmitReveal(c) ==
    /\ clients[c].pc = "reveal"
    /\ Transact(c, "reveal", cli_reveal(arena, clients[c].move, c),
                "await_result", clients[c].move)
    /\ UNCHANGED submitted

\* The wait for the result is over: the client reports it, and exits when the
\* game is over or returns to start the next round.
AwaitResult(c) ==
    /\ clients[c].pc = "await_result"
    /\ clients[c].result # "none"
    /\ Local(c, [clients[c] EXCEPT
                   !.pc = IF clients[c].result = "over" THEN "exit" ELSE "listen",
                   !.n = @ + 1,
                   !.sub = "none"])

\* A fetch of the arena by the first listener ("polling") finds the
\* opponent's move; the arena fetched is initialState.
PollMoved(c) ==
    /\ cli = "polling"
    /\ clients[c].sub = "move" /\ ~clients[c].moved
    /\ p2Moved(c, arena)
    /\ Local(c, [clients[c] EXCEPT !.moved = TRUE,
                                   !.initial_history = history_length(arena)])

\* A fetch of the arena by the second listener ("polling") finds the round
\* over.
PollRevealed(c) ==
    /\ cli = "polling"
    /\ clients[c].sub = "round" /\ clients[c].result = "none"
    /\ p2Revealed(arena, clients[c].initial_history)
    /\ Local(c, [clients[c] EXCEPT
                   !.result = IF is_some(arena.winner) THEN "over" ELSE "open"])

ClientNext ==
    \E c \in Clients :
        \/ ListenMove(c)
        \/ SubmitCommit(c)
        \/ AwaitMoved(c)
        \/ ListenRound(c)
        \/ SubmitReveal(c)
        \/ AwaitResult(c)
        \/ PollMoved(c)
        \/ PollRevealed(c)

ClientSpec == ClientInit /\ [][ClientNext]_vars

(***************************************************************************)
(* Two players that take only operations the arena accepts, and commit     *)
(* only to moves they can reveal                                           *)
(***************************************************************************)

\* The commitments of players that mean to reveal: of the moves 0 and 2, with
\* the test's salt.
PlayersCommitments == {hashed_move(m, SALT) : m \in {0, 2}}

\* A call the arena accepts: it returns, and its effects are kept.
Accepted(op, sender, res) ==
    /\ res.abort = NoAbort
    /\ Execute(op, sender, res)

\* A join the arena accepts.
AcceptedJoin ==
    \E sender \in Senders :
        Accepted("join", sender, join(arena, sender))

\* A commit the arena accepts.
AcceptedCommit ==
    \E sender \in Senders, commitment \in PlayersCommitments :
        Accepted("commit", sender, commit(arena, commitment, sender))

\* A reveal of a move 0, 1, 2 with a salt, which the arena accepts.
AcceptedReveal ==
    \E sender \in Senders, move \in 0..2, salt \in Salts :
        Accepted("reveal", sender, reveal(arena, move, salt, sender))

AcceptedNext == AcceptedJoin \/ AcceptedCommit \/ AcceptedReveal

\* The runs of accepted operations in which every operation that stays
\* possible is eventually taken.
FairSpec ==
    /\ Init
    /\ [][AcceptedNext]_vars
    /\ WF_vars(AcceptedJoin) /\ WF_vars(AcceptedCommit) /\ WF_vars(AcceptedReveal)

(***************************************************************************)
(* Whole games: two players take the calls the arena accepts, with any     *)
(* move, for as many rounds as the arena lets them                         *)
(***************************************************************************)

\* A call the arena accepts, in any round.
Played(op, sender, res) ==
    /\ res.abort = NoAbort
    /\ Apply(op, sender, res)

\* The second player joins.
GameJoin ==
    \E sender \in Clients :
        Played("join", sender, join(arena, sender))

\* A player commits to one of the three moves.
GameCommit ==
    \E sender \in Clients, move \in 0..2 :
        Played("commit", sender, commit(arena, hashed_move(move, SALT), sender))

\* A player reveals one of the three moves.
GameReveal ==
    \E sender \in Clients, move \in 0..2 :
        Played("reveal", sender, reveal(arena, move, SALT, sender))

GameNext == GameJoin \/ GameCommit \/ GameReveal

\* No bound on the rounds: the games end by themselves.
GameSpec == Init /\ [][GameNext]_vars

(***************************************************************************)
(* Vocabulary of the properties                                            *)
(***************************************************************************)

\* The accounts stored in the arena.
Participants ==
    {arena.player_one.account} \cup
    (IF is_some(arena.player_two) THEN {borrow(arena.player_two).account} ELSE {})

\* The Player record of a participant, and the one of their opponent.
PlayerOf(a, s) == IF s = a.player_one.account THEN a.player_one ELSE borrow(a.player_two)
OpponentOf(a, s) == IF s = a.player_one.account THEN borrow(a.player_two) ELSE a.player_one

InProgress == is_some(arena.player_two) /\ is_none(arena.winner)

\* The step is a reveal that returned.
RevealReturns == last'.op = "reveal" /\ last'.abort = NoAbort

\* s has revealed (successfully) in round r.
HasRevealed(s, r) == <<s, r>> \in DOMAIN revealed

\* The fields a failed reveal must leave alone.
SameBattleState(a, b) ==
    /\ a.round = b.round
    /\ a.player_one.stats.hp = b.player_one.stats.hp
    /\ a.player_one.next_round = b.player_one.next_round
    /\ a.player_one.next_attack = b.player_one.next_attack
    /\ is_some(a.player_two) = is_some(b.player_two)
    /\ is_some(a.player_two) =>
          /\ borrow(a.player_two).stats.hp = borrow(b.player_two).stats.hp
          /\ borrow(a.player_two).next_round = borrow(b.player_two).next_round
          /\ borrow(a.player_two).next_attack = borrow(b.player_two).next_attack

(***************************************************************************)
(* Properties                                                              *)
(***************************************************************************)

\* C1: a reveal that returns increments arena.round exactly when the other
\* player has already revealed for the current round, so that the reveal
\* completing the pair always advances the round.
C1_SecondRevealAdvancesRound ==
    [][RevealReturns =>
         ((arena'.round = arena.round + 1) <=>
          HasRevealed(OpponentOf(arena, last'.sender).account, arena.round))]_vars

\* C2: arena.round changes only by +1, only in a reveal that returns, and only
\* when both players have then revealed for the round that ends; never after
\* exactly one reveal, nor in join or commit.
C2_RoundAdvancesOnlyAfterBothReveals ==
    [][arena'.round # arena.round =>
         /\ arena'.round = arena.round + 1
         /\ RevealReturns
         /\ \A s \in Participants : <<s, arena.round>> \in DOMAIN revealed'
         /\ Cardinality(Participants) = 2]_vars

C2_Witness ==
    /\ arena.round = 1
    /\ last.op = "reveal" /\ last.abort = NoAbort
    /\ HasRevealed(last.sender, 0)
    /\ is_none(arena.player_one.next_attack)
    /\ arena.player_one.next_round = 1
    /\ borrow(arena.player_two).next_round = 1

\* C3: once arena.winner is set it never changes, whatever join, commit or
\* reveal follows from whichever sender.
C3_WinnerNeverChanges ==
    [][is_some(arena.winner) => arena'.winner = arena.winner]_vars

C3_Witness ==
    /\ is_some(arena.winner)
    /\ last.op = "reveal" /\ last.abort = EArenaOver

\* C4: while arena.winner is set, every commit and every reveal, from any
\* sender with any arguments, aborts with EArenaOver and leaves the arena as it
\* was.
C4_FinishedRejectsCommitAndReveal ==
    is_some(arena.winner) =>
        /\ \A s \in Senders, c \in Commitments :
              commit(arena, c, s) = Aborted(arena, EArenaOver)
        /\ \A s \in Senders, m \in Moves, salt \in Salts :
              reveal(arena, m, salt, s) = Aborted(arena, EArenaOver)

C4_Witness ==
    /\ is_some(arena.winner)
    /\ last.op = "commit" /\ last.abort = EArenaOver

\* The reveals C5 is about: by a participant who holds a commitment for the
\* current round, with a move and a salt that do not hash to it.
MismatchedReveal(s, m, salt) ==
    /\ s \in Participants
    /\ is_some(PlayerOf(arena, s).next_attack)
    /\ PlayerOf(arena, s).next_round = arena.round
    /\ hashed_move(m, salt) # borrow(PlayerOf(arena, s).next_attack)

\* C5 as stated: every such reveal aborts with EInvalidCommitment and leaves
\* hp, round, next_round and the pending commitments unchanged.
C5_MismatchAlwaysInvalidCommitment ==
    \A s \in Senders, m \in Moves, salt \in Salts :
        MismatchedReveal(s, m, salt) =>
            /\ reveal(arena, m, salt, s).abort = EInvalidCommitment
            /\ SameBattleState(reveal(arena, m, salt, s).arena, arena)

\* C5 as amended: while no winner is set, every such reveal aborts with
\* EInvalidCommitment and leaves hp, round, next_round and the pending
\* commitments unchanged.  Every arena is first seen as the result of an
\* accepted call, and is examined there.
C5_MismatchInvalidCommitmentInProgress ==
    (last.abort = NoAbort /\ is_none(arena.winner)) =>
        \A s \in Senders, m \in Moves, salt \in Salts :
            MismatchedReveal(s, m, salt) =>
                LET res == reveal(arena, m, salt, s)
                IN  /\ res.abort = EInvalidCommitment
                    /\ SameBattleState(res.arena, arena)

C5_Witness ==
    /\ last.op = "reveal" /\ last.abort = EInvalidCommitment
    /\ is_some(PlayerOf(arena, last.sender).next_attack)
    /\ PlayerOf(arena, last.sender).next_round = arena.round

\* C6: a join, commit or reveal that aborts leaves every field of the arena
\* as it was and emits no event, whichever check failed.  Every arena is first
\* seen as the result of an accepted call, and is examined there.
C6_RejectedCallsAreAtomic ==
    last.abort = NoAbort =>
        /\ \A s \in Senders :
              LET res == join(arena, s)
              IN  res.abort # NoAbort => res = Aborted(arena, res.abort)
        /\ \A s \in Senders, c \in Commitments :
              LET res == commit(arena, c, s)
              IN  res.abort # NoAbort => res = Aborted(arena, res.abort)
        /\ \A s \in Senders, m \in Moves, salt \in Salts :
              LET res == reveal(arena, m, salt, s)
              IN  res.abort # NoAbort => res = Aborted(arena, res.abort)

C6_Witness ==
    /\ last.op = "commit" /\ last.abort = EMoveAlreadySubmitted
    /\ emitted = <<>>

\* The hp of the two players, playerTwo's once joined.
HpOfOne(a) == a.player_one.stats.hp
HpOfTwo(a) == borrow(a.player_two).stats.hp

\* hp - d, stopping at 0.
SaturatingSub(hp, d) == IF BigLt(hp, d) THEN <<>> ELSE BigSub(hp, d)

\* The damage of the hit a reveal of (m, salt) lands in the current round.
HitDamage(s, m, salt) ==
    attack(PlayerOf(arena, s).stats, OpponentOf(arena, s).stats, m,
           hit_rng(hashed_move(m, salt), 2, arena.round).value).damage

\* C7: no step raises a player's hp, hp is a natural number, and a reveal that
\* returns leaves the attacker's hp alone and lowers the defender's by the
\* damage of the hit, stopping at 0.
C7_HpNeverIncreasesAndSaturates ==
    [][/\ BigLeq(HpOfOne(arena'), HpOfOne(arena))
       /\ \A i \in 1..Len(HpOfOne(arena')) : HpOfOne(arena')[i] \in 0..(Base - 1)
       /\ is_some(arena.player_two) =>
             /\ is_some(arena'.player_two)
             /\ BigLeq(HpOfTwo(arena'), HpOfTwo(arena))
             /\ \A i \in 1..Len(HpOfTwo(arena')) : HpOfTwo(arena')[i] \in 0..(Base - 1)
       /\ RevealReturns =>
             /\ PlayerOf(arena', last'.sender).stats.hp
                   = PlayerOf(arena, last'.sender).stats.hp
             /\ \E m \in Moves, salt \in Salts :
                   /\ reveal(arena, m, salt, last'.sender).arena = arena'
                   /\ OpponentOf(arena', last'.sender).stats.hp
                         = SaturatingSub(OpponentOf(arena, last'.sender).stats.hp,
                                         HitDamage(last'.sender, m, salt))]_vars

C7_Witness ==
    /\ last.op = "reveal" /\ last.abort = NoAbort
    /\ OpponentOf(arena, last.sender).stats.hp = <<>>
    /\ PlayerOf(arena, last.sender).stats.hp
          # PlayerOf(arena, last.sender).starting_hp

\* C8: commit aborts with EArenaNotReady while playerTwo is absent and with
\* EArenaOver once a winner is set; in an arena in progress it aborts with
\* EUnknownSender for a sender who is neither player, and with
\* EMoveAlreadySubmitted, the stored commitment kept, for a player who already
\* holds a pending commitment.
C8_CommitFailures ==
    \A s \in Senders, c \in Commitments :
        /\ is_none(arena.player_two) => commit(arena, c, s).abort = EArenaNotReady
        /\ is_some(arena.winner) => commit(arena, c, s).abort = EArenaOver
        /\ (InProgress /\ s \notin Participants) =>
              commit(arena, c, s).abort = EUnknownSender
        /\ (InProgress /\ s \in Participants
              /\ is_some(PlayerOf(arena, s).next_attack)) =>
              /\ commit(arena, c, s).abort = EMoveAlreadySubmitted
              /\ PlayerOf(commit(arena, c, s).arena, s).next_attack
                    = PlayerOf(arena, s).next_attack

C8_Witness ==
    /\ InProgress
    /\ last.op = "commit" /\ last.abort = EMoveAlreadySubmitted
    /\ last.sender \in Participants
    /\ is_some(PlayerOf(arena, last.sender).next_attack)

\* C9: a commit that returns changes only the sender's pending commitment,
\* from absent to the given digest: hp, stats, next_round, round, winner, seed
\* and the other player's commitment stay, and PlayerCommit is all it emits.
C9_CommitStoresOnlyTheDigest ==
    \A s \in Senders, c \in Commitments :
        commit(arena, c, s).abort = NoAbort =>
            /\ s \in Participants
            /\ is_none(PlayerOf(arena, s).next_attack)
            /\ commit(arena, c, s).arena =
                  IF s = arena.player_one.account
                  THEN [arena EXCEPT !.player_one.next_attack = <<c>>]
                  ELSE [arena EXCEPT !.player_two[1].next_attack = <<c>>]
            /\ commit(arena, c, s).events
                  = <<[type |-> "PlayerCommit", arena |-> arena.id]>>

C9_Witness ==
    /\ last.op = "commit" /\ last.abort = NoAbort
    /\ last.sender = BOB
    /\ is_some(borrow(arena.player_two).next_attack)
    /\ is_none(arena.player_one.next_attack)

\* The reveals C10 is about: by one of the two players of a joined arena who
\* holds no commitment, or whose next_round is not the arena's round.
OutOfTurnReveal(s) ==
    /\ is_some(arena.player_two)
    /\ s \in Participants
    /\ \/ is_none(PlayerOf(arena, s).next_attack)
       \/ PlayerOf(arena, s).next_round # arena.round

SequencingErrors == {EPlayerOneNotReady, EMoveAlreadySubmitted}

\* No player has more than one returned reveal for any value of arena.round.
OneRevealPerRound == \A key \in DOMAIN revealed : revealed[key] <= 1

\* C10 as stated: every such reveal aborts with a sequencing error and changes
\* nothing; and each player has at most one returned reveal per round.
C10_OutOfTurnRevealSequencingError ==
    /\ \A s \in Senders, m \in Moves, salt \in Salts :
          OutOfTurnReveal(s) =>
              /\ reveal(arena, m, salt, s).abort \in SequencingErrors
              /\ reveal(arena, m, salt, s).arena = arena
    /\ OneRevealPerRound

\* C10 as amended: in an arena in progress (playerTwo present, no winner) every
\* such reveal aborts with a sequencing error (EPlayerOneNotReady without a
\* commitment, else EMoveAlreadySubmitted) and changes nothing; and each
\* player has at most one returned reveal per round.
C10_OutOfTurnRevealInProgress ==
    /\ \A s \in Senders, m \in Moves, salt \in Salts :
          (InProgress /\ OutOfTurnReveal(s)) =>
              /\ reveal(arena, m, salt, s).abort =
                    IF is_none(PlayerOf(arena, s).next_attack)
                    THEN EPlayerOneNotReady ELSE EMoveAlreadySubmitted
              /\ reveal(arena, m, salt, s).arena = arena
    /\ OneRevealPerRound

C10_Witness ==
    /\ InProgress
    /\ last.op = "reveal" /\ last.abort = EMoveAlreadySubmitted
    /\ is_some(PlayerOf(arena, last.sender).next_attack)
    /\ HasRevealed(last.sender, arena.round)

\* C11: a reveal that returns clears the attacker's pending commitment, sets
\* the attacker's next_round to the round before the call plus one, lowers the
\* defender's hp by the damage of the hit, stopping at 0, and leaves the
\* attacker's hp and the defender's pending commitment and next_round alone.
\* Every arena is first seen as the result of an accepted call, and is
\* examined there.
C11_RevealEffects ==
    last.abort = NoAbort =>
      \A s \in Senders, m \in Moves, salt \in Salts :
        LET res == reveal(arena, m, salt, s)
        IN  res.abort = NoAbort =>
              /\ s \in Participants
              /\ PlayerOf(res.arena, s).next_attack = option_none
              /\ PlayerOf(res.arena, s).next_round = arena.round + 1
              /\ OpponentOf(res.arena, s).stats.hp
                    = SaturatingSub(OpponentOf(arena, s).stats.hp,
                                    HitDamage(s, m, salt))
              /\ PlayerOf(res.arena, s).stats.hp = PlayerOf(arena, s).stats.hp
              /\ OpponentOf(res.arena, s).next_attack
                    = OpponentOf(arena, s).next_attack
              /\ OpponentOf(res.arena, s).next_round
                    = OpponentOf(arena, s).next_round

C11_Witness ==
    /\ last.op = "reveal" /\ last.abort = NoAbort
    /\ is_none(PlayerOf(arena, last.sender).next_attack)
    /\ PlayerOf(arena, last.sender).next_round = arena.round + 1
    /\ is_some(OpponentOf(arena, last.sender).next_attack)
    /\ OpponentOf(arena, last.sender).next_round = arena.round
    /\ OpponentOf(arena, last.sender).stats.hp # <<>>
    /\ OpponentOf(arena, last.sender).stats.hp
          # OpponentOf(arena, last.sender).starting_hp

\* C12: a reveal that returns leaves arena.winner holding the revealing player
\* exactly when the defender's hp is 0 after the hit, and absent otherwise; no
\* step other than a returned reveal changes arena.winner.
C12_WinnerSetExactlyOnKnockout ==
    [][/\ RevealReturns =>
             IF OpponentOf(arena', last'.sender).stats.hp = <<>>
             THEN arena'.winner = option_some(last'.sender)
             ELSE arena'.winner = option_none
       /\ arena'.winner # arena.winner => RevealReturns]_vars

C12_Witness ==
    /\ last.op = "reveal" /\ last.abort = NoAbort
    /\ arena.winner = option_some(last.sender)
    /\ OpponentOf(arena, last.sender).stats.hp = <<>>
    /\ PlayerOf(arena, last.sender).stats.hp # <<>>

\* The phase of an arena: 0 while playerTwo is absent (WaitingForPlayerTwo),
\* 1 with playerTwo present and no winner (InProgress), 2 with a winner
\* (Finished).
Phase(a) ==
    IF is_none(a.player_two) THEN 0 ELSE IF is_none(a.winner) THEN 1 ELSE 2

\* C13: every step keeps the phase or moves it to the next one, so that no
\* phase is skipped and none is left backwards; playerTwo, once present, stays
\* present; no winner is set while playerTwo is absent; and the phase with a
\* winner is never left.
C13_PhaseOnlyMovesForward ==
    [][/\ Phase(arena') \in {Phase(arena), Phase(arena) + 1}
       /\ is_some(arena.player_two) => is_some(arena'.player_two)
       /\ is_none(arena.player_two) => is_none(arena.winner)
       /\ is_none(arena'.player_two) => is_none(arena'.winner)
       /\ Phase(arena) = 2 => Phase(arena') = 2]_vars

C13_Witness ==
    /\ Phase(arena) = 2
    /\ last.op = "join" /\ last.abort = EOptionIsSet
    /\ last.sender \notin Participants

\* The arena is at the start of a round: in progress, no commitment pending
\* and neither player has revealed in the round.
RoundStart(a) ==
    /\ is_some(a.player_two) /\ is_none(a.winner)
    /\ is_none(a.player_one.next_attack)
    /\ is_none(borrow(a.player_two).next_attack)
    /\ a.player_one.next_round = a.round
    /\ borrow(a.player_two).next_round = a.round

\* The four operations of a round: the commit and the reveal of player one
\* ("c1", "r1") and of player two ("c2", "r2").
RoundOps == {"c1", "r1", "c2", "r2"}

\* The orders of the four operations that keep each player's commit before
\* that player's reveal.
Interleavings ==
    {o \in [1..4 -> RoundOps] :
        /\ \A i, j \in 1..4 : o[i] = o[j] => i = j
        /\ \A i, j \in 1..4 : (o[i] = "c1" /\ o[j] = "r1") => i < j
        /\ \A i, j \in 1..4 : (o[i] = "c2" /\ o[j] = "r2") => i < j}

\* One of the four operations applied to the arena a: player one plays move m1
\* with salt s1, player two m2 with s2.
RoundOp(a, op, m1, s1, m2, s2) ==
    CASE op = "c1" -> commit(a, hashed_move(m1, s1), a.player_one.account)
      [] op = "r1" -> reveal(a, m1, s1, a.player_one.account)
      [] op = "c2" -> commit(a, hashed_move(m2, s2), borrow(a.player_two).account)
      [] op = "r2" -> reveal(a, m2, s2, borrow(a.player_two).account)

\* The results of the four operations applied in the order o, each to the
\* arena the one before left.
PlayRound(a, o, m1, s1, m2, s2) ==
    LET r1 == RoundOp(a, o[1], m1, s1, m2, s2)
        r2 == RoundOp(r1.arena, o[2], m1, s1, m2, s2)
        r3 == RoundOp(r2.arena, o[3], m1, s1, m2, s2)
        r4 == RoundOp(r3.arena, o[4], m1, s1, m2, s2)
    IN  <<r1, r2, r3, r4>>

\* Some operation of the round left a player with hp 0.
Knockout(rs) ==
    \E i \in 1..4 : HpOfOne(rs[i].arena) = <<>> \/ HpOfTwo(rs[i].arena) = <<>>

\* All four operations returned, and the round is over: the next round has
\* started for the arena and for both players, and no commitment is pending.
RoundCompleted(a, rs) ==
    /\ \A i \in 1..4 : rs[i].abort = NoAbort
    /\ rs[4].arena.round = a.round + 1
    /\ rs[4].arena.player_one.next_round = a.round + 1
    /\ borrow(rs[4].arena.player_two).next_round = a.round + 1
    /\ is_none(rs[4].arena.player_one.next_attack)
    /\ is_none(borrow(rs[4].arena.player_two).next_attack)

\* The move bytes that are moves of the damage engine.
PlayableMoves == {m \in Moves : m < Len(MOVES_POWER)}

\* C14 as stated: from the start of a round, for any move bytes and salts the
\* two players pick, every interleaving of their commits and matching reveals
\* that no knockout interrupts is accepted in full and completes the round.
C14_EveryInterleavingAccepted ==
    RoundStart(arena) =>
        \A o \in Interleavings, m1 \in Moves, m2 \in Moves,
           s1 \in Salts, s2 \in Salts :
            LET rs == PlayRound(arena, o, m1, s1, m2, s2)
            IN  ~Knockout(rs) => RoundCompleted(arena, rs)

\* C14 as amended: from the start of a round (the arena a join or a
\* round-ending reveal has just returned), for any of the moves 0, 1, 2 and
\* any salts the two players pick, every interleaving of their commits and
\* matching reveals that no knockout interrupts is accepted in full and
\* completes the round.
C14_EveryInterleavingOfMovesAccepted ==
    (RoundStart(arena) /\ last.abort = NoAbort) =>
        \A o \in Interleavings, m1 \in PlayableMoves, m2 \in PlayableMoves,
           s1 \in Salts, s2 \in Salts :
            LET rs == PlayRound(arena, o, m1, s1, m2, s2)
            IN  ~Knockout(rs) => RoundCompleted(arena, rs)

C14_Witness ==
    /\ RoundStart(arena)
    /\ arena.round = 1
    /\ last.op = "reveal" /\ last.abort = NoAbort
    /\ last.sender = arena.player_one.account
    /\ HasRevealed(borrow(arena.player_two).account, 0)
    /\ Cardinality(Interleavings) = 6

\* C15: a join sent by the account stored as playerOne aborts with
\* EYouCantTrickMe, with playerTwo absent or present, and leaves the arena as
\* it was.
C15_JoinByPlayerOneRejected ==
    join(arena, arena.player_one.account) = Aborted(arena, EYouCantTrickMe)

C15_Witness ==
    /\ is_some(arena.player_two)
    /\ last.op = "join" /\ last.abort = EYouCantTrickMe
    /\ last.sender = arena.player_one.account

C17_JoinEffects ==
    \A s \in Senders :
        LET res   == join(arena, s)
            stats == generate_stats(derive(arena.seed, 1))
        IN  res.abort = NoAbort =>
              /\ is_none(arena.player_two)
              /\ res.arena.player_two =
                    option_some([account |-> s,
                                 next_round |-> 0,
                                 next_attack |-> option_none,
                                 starting_hp |-> stats.hp,
                                 stats |-> stats])
              /\ res.arena = [arena EXCEPT !.player_two = res.arena.player_two]
              /\ res.arena.round = 0
              /\ \A t \in Senders :
                    join(arena, t).abort = NoAbort =>
                        borrow(join(arena, t).arena.player_two).stats
                            = borrow(res.arena.player_two).stats
              /\ res.events = <<[type |-> "PlayerJoined", arena |-> arena.id]>>

C17_Witness ==
    /\ last.op = "join" /\ last.abort = NoAbort
    /\ last.sender = CAROL
    /\ borrow(arena.player_two).account = CAROL
    /\ borrow(arena.player_two).starting_hp = borrow(arena.player_two).stats.hp
    /\ borrow(arena.player_two).stats # arena.player_one.stats
    /\ emitted = <<[type |-> "PlayerJoined", arena |-> arena.id]>>

\* The digests the random byte is drawn from in the check of C18, besides the
\* commitments of the arena: the digests of the one-byte vectors.
SampleDigests == {blake2b256(<<b>>) : b \in 0..63}

\* Whatever the digest and the round, a random byte hit_rng returns is in the
\* range the damage engine accepts.
HitRngInRange ==
    \A d \in SampleDigests, r \in 0..40 :
        hit_rng(d, 2, r).abort = NoAbort => hit_rng(d, 2, r).value \in 217..255

\* C18: the random byte a reveal passes to the damage engine is in 217..255,
\* for the digest of every move and salt in every reachable round, so that no
\* reveal aborts with EIncorrectRandomValue. Every arena is first seen as the
\* result of an accepted call, and is examined there.
C18_RevealRandomByteInRange ==
    /\ HitRngInRange
    /\ last.abort = NoAbort =>
        \A m \in Moves, salt \in Salts :
          LET rng == hit_rng(hashed_move(m, salt), 2, arena.round)
          IN  /\ rng.abort = NoAbort
              /\ rng.value \in 217..255
              /\ \A s \in Senders :
                    reveal(arena, m, salt, s).abort # EIncorrectRandomValue

C18_Witness ==
    /\ last.op = "reveal" /\ last.abort = NoAbort
    /\ HasRevealed(last.sender, 1)
    /\ \E m \in PlayableMoves :
          /\ emitted[1].move = m
          /\ hit_rng(hashed_move(m, SALT), 2, 1).value \in 217..255


\* C19: the salt a player picks for a commitment has no influence on the hit:
\* in any arena, for any player and move, committing and revealing with one
\* salt or with another draws the same random byte and leaves the defender
\* with the same hp.
C19_SaltDoesNotInfluenceHit ==
    \A s \in Senders, m \in PlayableMoves, salt1 \in Salts, salt2 \in Salts :
        LET hit(salt) ==
                reveal(commit(arena, hashed_move(m, salt), s).arena, m, salt, s)
        IN  (hit(salt1).abort = NoAbort /\ hit(salt2).abort = NoAbort) =>
              /\ hit_rng(hashed_move(m, salt1), 2, arena.round).value
                    = hit_rng(hashed_move(m, salt2), 2, arena.round).value
              /\ OpponentOf(hit(salt1).arena, s).stats.hp
                    = OpponentOf(hit(salt2).arena, s).stats.hp

\* The ranges C20 gives for a Stats record fresh from generate_stats.
StatsInRange(stats) ==
    /\ stats.attack \in 10..50
    /\ stats.defence \in 10..50
    /\ stats.special_attack \in 10..50
    /\ stats.special_defence \in 10..50
    /\ stats.speed \in 10..50
    /\ BigLeq(BigMulSmall(SCALING_FACTOR, 10), stats.hp)
    /\ FitsU64(stats.hp)
    /\ Len(stats.types) = 1 /\ stats.types[1] \in 0..2
    /\ stats.level = 10

\* smooth of every byte is max(10, ((b mod 50) + 50) / 2), a value in 10..50.
SmoothInRange ==
    \A b \in 0..255 :
        /\ smooth(b) \in 10..50
        /\ smooth(b) = (IF ((b % 50) + 50) \div 2 < 10 THEN 10
                        ELSE ((b % 50) + 50) \div 2)

\* The stats of the seeds made of one byte value repeated: every value of
\* every byte generate_stats reads.
UniformSeedStatsInRange ==
    \A b \in 0..255 : StatsInRange(generate_stats([i \in 1..32 |-> b]))

\* C20: generate_stats returns attack, defence, special attack, special
\* defence and speed in 10..50, hp of at least 10 * SCALING_FACTOR, one type in
\* 0..2 and level 10, for every byte value of the seed and for the seeds the
\* arena derives for its two players.
C20_GeneratedStatsInRange ==
    /\ SmoothInRange
    /\ UniformSeedStatsInRange
    /\ \A path \in 0..1 : StatsInRange(generate_stats(derive(arena.seed, path)))

C20_Witness ==
    /\ last.op = "new"
    /\ arena.player_one.stats = generate_stats(derive(arena.seed, 0))
    /\ StatsInRange(arena.player_one.stats)
    /\ arena.player_one.stats.attack # arena.player_one.stats.defence

(***************************************************************************)
(* prototype::arena (the player-vs-bot arena)                              *)
(***************************************************************************)

\* prototype::arena::smooth: the player-vs-bot arena's smoothing of a byte.
arena_smooth(value) ==
    LET v == ((value % 60) + 60) \div 2
    IN  IF v = 0 THEN 10 ELSE v

\* prototype::arena::generate_stats: the stats of the player (seed derived
\* with path 0) and of the bot (path 1), from bytes 0..6 of the seed.
arena_generate_stats(seed) ==
    LET level == 10
    IN  stats_new(10 + arena_smooth(seed[1]),
                  arena_smooth(seed[2]),
                  arena_smooth(seed[3]),
                  arena_smooth(seed[4]),
                  arena_smooth(seed[5]),
                  arena_smooth(seed[6]),
                  level,
                  <<seed[7] % 3>>)

\* The abort code of an attack on an arena that is over.
EArenaIsOver == "666"

\* prototype::arena::hit_rng: the byte of derive(seed, path) at index round,
\* reduced into the hit range; aborts when round is past the digest.
arena_hit_rng(seed, path, round) ==
    LET digest == derive(seed, path)
    IN  IF round >= Len(digest)
        THEN [abort |-> EIndexOutOfBounds, value |-> 0]
        ELSE [abort |-> NoAbort,
              value |-> (digest[round + 1] % (255 - 217)) + 217]

\* prototype::arena::new_: the arena with the stats of the player and of the
\* bot, and the event it emits.
arena_new_(addr) ==
    LET seed == blake2b256(address_to_bytes(addr))
        player_stats == arena_generate_stats(derive(seed, 0))
        bot_stats == arena_generate_stats(derive(seed, 1))
    IN  Returned([id |-> addr,
                  seed |-> seed,
                  bot_stats |-> bot_stats,
                  player_stats |-> player_stats,
                  round |-> 0,
                  is_over |-> FALSE],
                 <<[type |-> "ArenaCreated", arena |-> addr,
                    player_stats |-> player_stats, bot_stats |-> bot_stats]>>)

ArenaAttackBotFirst(a, move) ==
    LET player_rng == arena_hit_rng(a.seed, 3, a.round)
        bot_rng    == arena_hit_rng(a.seed, 4, a.round)
        bot_move   == arena_hit_rng(a.seed, 5, a.round).value % 3
        bot_hit    == attack(a.bot_stats, a.player_stats, bot_move, bot_rng.value)
        player_hit == attack(a.player_stats, a.bot_stats, move, player_rng.value)
        hit_back   == bot_hit.defender.hp # << >>
        bot_stats  == IF hit_back THEN player_hit.defender ELSE a.bot_stats
        is_over    == bot_hit.defender.hp = << >> \/ bot_stats.hp = << >>
    IN
    IF a.is_over # FALSE THEN Aborted(a, EArenaIsOver)
    ELSE IF player_rng.abort # NoAbort THEN Aborted(a, player_rng.abort)
    ELSE IF player_hit.abort # NoAbort THEN Aborted(a, player_hit.abort)
    ELSE IF bot_hit.abort # NoAbort THEN Aborted(a, bot_hit.abort)
    ELSE IF a.round + 1 > 255 THEN Aborted(a, EArithmetic)
    ELSE Returned([a EXCEPT !.bot_stats = bot_stats,
                            !.player_stats = bot_hit.defender,
                            !.round = a.round + 1,
                            !.is_over = is_over],
                  <<[type |-> "ArenaHit", arena |-> a.id,
                     bot_hp |-> bot_stats.hp,
                     player_hp |-> bot_hit.defender.hp]>>)

ArenaAttackKeepsOpen(a, move) ==
    LET player_rng == arena_hit_rng(a.seed, 3, a.round)
        bot_rng    == arena_hit_rng(a.seed, 4, a.round)
        bot_move   == arena_hit_rng(a.seed, 5, a.round).value % 3
        player_hit == attack(a.player_stats, a.bot_stats, move, player_rng.value)
        bot_hit    == attack(player_hit.defender, a.player_stats, bot_move, bot_rng.value)
        is_over    == bot_hit.defender.hp = << >> /\ player_hit.defender.hp = << >>
    IN
    IF a.is_over # FALSE THEN Aborted(a, EArenaIsOver)
    ELSE IF player_rng.abort # NoAbort THEN Aborted(a, player_rng.abort)
    ELSE IF player_hit.abort # NoAbort THEN Aborted(a, player_hit.abort)
    ELSE IF bot_hit.abort # NoAbort THEN Aborted(a, bot_hit.abort)
    ELSE IF a.round + 1 > 255 THEN Aborted(a, EArithmetic)
    ELSE Returned([a EXCEPT !.bot_stats = player_hit.defender,
                            !.player_stats = bot_hit.defender,
                            !.round = a.round + 1,
                            !.is_over = is_over],
                  <<[type |-> "ArenaHit", arena |-> a.id,
                     bot_hp |-> player_hit.defender.hp,
                     player_hp |-> bot_hit.defender.hp]>>)

\* prototype::arena::attack: the player's hit on the bot, then the bot's hit
\* on the player with the move and the random bytes of the round; the round
\* goes up by one, and the arena is over when an hp is 0.  Every abort
\* precedes every write.
arena_attack(a, move) ==
    LET player_rng == arena_hit_rng(a.seed, 3, a.round)
        bot_rng    == arena_hit_rng(a.seed, 4, a.round)
        bot_move   == arena_hit_rng(a.seed, 5, a.round).value % 3
        player_hit == attack(a.player_stats, a.bot_stats, move, player_rng.value)
        bot_hit    == attack(player_hit.defender, a.player_stats, bot_move, bot_rng.value)
        is_over    == bot_hit.defender.hp = << >> \/ player_hit.defender.hp = << >>
    IN
    IF a.is_over # FALSE THEN Aborted(a, EArenaIsOver)
    ELSE IF player_rng.abort # NoAbort THEN Aborted(a, player_rng.abort)
    ELSE IF player_hit.abort # NoAbort THEN Aborted(a, player_hit.abort)
    ELSE IF bot_hit.abort # NoAbort THEN Aborted(a, bot_hit.abort)
    ELSE IF a.round + 1 > 255 THEN Aborted(a, EArithmetic)
    ELSE Returned([a EXCEPT !.bot_stats = player_hit.defender,
                            !.player_stats = bot_hit.defender,
                            !.round = a.round + 1,
                            !.is_over = is_over],
                  <<[type |-> "ArenaHit", arena |-> a.id,
                     bot_hp |-> player_hit.defender.hp,
                     player_hp |-> bot_hit.defender.hp]>>)

\* cli/v1/pvb.js: what the client prints for the event of an attack.
cli_report(event) ==
    IF event.bot_hp = << >> THEN "You won!"
    ELSE IF event.player_hp = << >> THEN "You lost!"
    ELSE "table"

\* The player creates an arena against the bot.
ArenaInit ==
    /\ \E addr \in FreshAddresses :
          /\ arena = arena_new_(addr).arena
          /\ emitted = arena_new_(addr).events
    /\ last = [op |-> "new", sender |-> ALICE, abort |-> NoAbort]
    /\ revealed = << >>
    /\ NoClients

\* The player calls attack with a move byte.
ArenaAttack ==
    \E move \in Moves :
        Apply("attack", ALICE, arena_attack(arena, move))

ArenaNext == ArenaAttack

\* The player-vs-bot arena: no bound on the rounds, the games end by
\* themselves.
ArenaSpec == ArenaInit /\ [][ArenaNext]_vars


\* The five stats other than hp lie in 10..50.
NonHpStatsInRange(stats) ==
    /\ stats.attack \in 10..50
    /\ stats.defence \in 10..50
    /\ stats.special_attack \in 10..50
    /\ stats.special_defence \in 10..50
    /\ stats.speed \in 10..50

\* C21: the player-vs-bot arena's generator keeps every stat other than hp in
\* 10..50, for every value of every seed byte it reads and for the seeds it
\* derives for the player (path 0) and the bot (path 1) of an arena.
C21_ArenaStatsInRange ==
    /\ \A b \in 0..255 : arena_smooth(b) \in 10..50
    /\ \A b \in 0..255 : NonHpStatsInRange(arena_generate_stats([i \in 1..32 |-> b]))
    /\ \A path \in 0..1 : NonHpStatsInRange(arena_generate_stats(derive(arena.seed, path)))

(***************************************************************************)
(* Claims about prototype::battle and pokemon::pokemon_v1                  *)
(***************************************************************************)

\* The stats st with the single type t.
Typed(st, t) == [st EXCEPT !.types = <<t>>]

\* Stats generated from the digests of four one-byte vectors, to attack, and
\* from four others, to defend.
SampleAttackers == {generate_stats(blake2b256(<<b>>)) : b \in 0..3}
SampleDefenders == {generate_stats(blake2b256(<<b>>)) : b \in 8..11}

\* The random bytes the type rule is checked with.
SampleRandoms == {217, 236, 255}

\* The damage of the move m of a against d: the physical damage times the
\* effectiveness of m against the defender's type dt, then times the same-type
\* bonus exactly when m is the attacker's type at.
TypeRuleHolds(a, d, m, at, dt, rng) ==
    LET raw == physical_damage(a, d, MOVES_POWER[m + 1], rng).value
        eff == BigDivSmall(BigMulSmall(raw, MOVES_EFFECTIVENESS[m + 1][dt + 1]), EFF_SCALING)
        hit == attack(Typed(a, at), Typed(d, dt), m, rng)
    IN  /\ hit.abort = NoAbort
        /\ hit.damage = (IF m = at
                         THEN BigDivSmall(BigMulSmall(eff, STAB_BONUS), EFF_SCALING)
                         ELSE eff)

\* C22: battle::attack looks the effectiveness up by the move and the
\* defender's type, never by the attacker's type, and applies the 15/10
\* same-type bonus exactly when the move is the attacker's type, for the 27
\* combinations of move, attacker type and defender type: on sampled stats
\* (examined once, when the arena is created) and on the stats of the two
\* players of every arena a join has completed, in both directions.
C22_EffectivenessByDefenderBonusByAttacker ==
    /\ last.op = "new" =>
          \A a \in SampleAttackers, d \in SampleDefenders, rng \in SampleRandoms :
              \A m \in 0..2, at \in 0..2, dt \in 0..2 :
                  TypeRuleHolds(a, d, m, at, dt, rng)
    /\ (last.op = "join" /\ last.abort = NoAbort) =>
          LET one == arena.player_one.stats
              two == borrow(arena.player_two).stats
          IN  \A m \in 0..2, at \in 0..2, dt \in 0..2, rng \in SampleRandoms :
                  /\ TypeRuleHolds(one, two, m, at, dt, rng)
                  /\ TypeRuleHolds(two, one, m, at, dt, rng)

C22_Witness ==
    /\ last.op = "join" /\ last.abort = NoAbort
    /\ LET one == arena.player_one.stats
           two == borrow(arena.player_two).stats
       IN  \* the same move and defender: the bonus depends on the attacker's type
           /\ attack(Typed(one, 0), Typed(two, 2), 0, 255).damage
                # attack(Typed(one, 1), Typed(two, 2), 0, 255).damage
           \* the same move and attacker: the effectiveness on the defender's
           /\ attack(Typed(one, 1), Typed(two, 2), 0, 255).damage
                # attack(Typed(one, 1), Typed(two, 0), 0, 255).damage

\* The values smooth returns: the values of a generated stat other than hp.
SmoothValues == {smooth(b) : b \in 0..255}

\* The documented damage of the move with a random byte, for an attacker of the
\* given level and attack and a defender of the given defence, with the
\* effectiveness in tenths and the same-type bonus or not: floor division at
\* each step, in the stated order.
DocumentedDamage(level, atk, def, move, randomByte, effectiveness, sameType) ==
    LET scaling     == SCALING_FACTOR
        movePower   == <<40, 60, 80>>[move + 1]
        levelMod    == ((2 * level * 1) \div 5) + 2
        atkDefRatio == BigDivSmall(BigMulSmall(scaling, atk), def)
        base        == BigAdd(BigDivSmall(BigMulSmall(atkDefRatio, levelMod * movePower), 50),
                              BigMulSmall(scaling, 2))
        rnd         == BigDivSmall(BigMulSmall(scaling, randomByte), 255)
        product     == BigMul(base, rnd)
        \* product / scaling: scaling is Base^2, the quotient drops two limbs
        raw         == IF Len(product) <= 2 THEN <<>> ELSE SubSeq(product, 3, Len(product))
        typed       == BigDivSmall(BigMulSmall(raw, effectiveness), 10)
    IN  IF sameType THEN BigDivSmall(BigMulSmall(typed, 15), 10) ELSE typed

\* The documented damage of the move m of the stats a against the stats d.
DocumentedHit(a, d, m, rng) ==
    DocumentedDamage(a.level, a.attack, d.defence, m, rng,
                     MOVES_EFFECTIVENESS[m + 1][d.types[1] + 1], m = a.types[1])

\* battle::attack of a on d subtracts exactly the documented damage from the
\* defender's hp.
SubtractsDocumented(a, d, m, rng) ==
    LET hit == attack(a, d, m, rng)
    IN  /\ hit.abort = NoAbort
        /\ BigLeq(hit.defender.hp, d.hp)
        /\ BigSub(d.hp, hit.defender.hp) = DocumentedHit(a, d, m, rng)

\* battle::attack of a on d computes exactly the documented damage and
\* subtracts it from the defender's hp, which stops at 0.
DamageIsDocumented(a, d, m, rng) ==
    LET hit == attack(a, d, m, rng)
        doc == DocumentedHit(a, d, m, rng)
    IN  /\ hit.abort = NoAbort
        /\ hit.damage = doc
        /\ hit.defender.hp = (IF BigLt(d.hp, doc) THEN <<>> ELSE BigSub(d.hp, doc))

\* Generated stats with the given hp byte, attack, defence and type.
StatsWith(hp, atk, def, type) ==
    stats_new(10 + hp, atk, def, 25, 25, 25, 10, <<type>>)

\* C23 as stated: for generated stats, the moves 0, 1, 2 and the random bytes
\* 217..255, the amount battle::attack subtracts from the defender's hp is the
\* documented damage: for the players of every joined arena, in both
\* directions.
C23_SubtractsDocumentedDamage ==
    (last.op = "join" /\ last.abort = NoAbort) =>
        LET one == arena.player_one.stats
            two == borrow(arena.player_two).stats
        IN  \A m \in 0..2, rng \in 217..255 :
                /\ SubtractsDocumented(one, two, m, rng)
                /\ SubtractsDocumented(two, one, m, rng)

\* C23 as amended: for generated stats, the moves 0, 1, 2 and the random bytes
\* 217..255, the damage battle::attack computes is the documented damage, and
\* the defender's hp decreases by it or, when the damage exceeds the hp, to 0.
\* Examined when the arena is created, for every attack and defence with two
\* random bytes, and for the extreme attack, defence and hp with every random
\* byte and every combination of types; and for the players of every joined
\* arena, in both directions.
C23_DamageIsDocumentedHpSaturates ==
    /\ last.op = "new" =>
          /\ \A atk \in SmoothValues, def \in SmoothValues, m \in 0..2, rng \in {217, 255} :
                DamageIsDocumented(StatsWith(25, atk, 25, 0), StatsWith(49, 25, def, 0), m, rng)
          /\ \A atk \in {25, 49}, def \in {25, 49}, hp \in {25, 49}, rng \in 217..255 :
                \A m \in 0..2, at \in 0..2, dt \in 0..2 :
                    DamageIsDocumented(StatsWith(25, atk, 25, at), StatsWith(hp, 25, def, dt), m, rng)
    /\ (last.op = "join" /\ last.abort = NoAbort) =>
          LET one == arena.player_one.stats
              two == borrow(arena.player_two).stats
          IN  \A m \in 0..2, rng \in 217..255 :
                  /\ DamageIsDocumented(one, two, m, rng)
                  /\ DamageIsDocumented(two, one, m, rng)

\* A joined arena where some hit exceeds the defender's hp and another does not.
C23_Witness ==
    /\ last.op = "join" /\ last.abort = NoAbort
    /\ LET one == arena.player_one.stats
           two == borrow(arena.player_two).stats
       IN  /\ \E m \in 0..2, rng \in 217..255 :
                 /\ BigLt(two.hp, DocumentedHit(one, two, m, rng))
                 /\ attack(one, two, m, rng).defender.hp = <<>>
           /\ \E m \in 0..2, rng \in 217..255 :
                 /\ BigLt(DocumentedHit(one, two, m, rng), two.hp)
                 /\ attack(one, two, m, rng).defender.hp # <<>>

\* The RoundResult events among the events of the last transaction.
RoundResults == {i \in 1..Len(emitted) : emitted[i].type = "RoundResult"}

\* C24: a RoundResult event is emitted only when both players have hit and the
\* round is over: a reveal that returns emits exactly one RoundResult when it
\* completes the round, and none when it is the first reveal of its round.
C24_RoundResultOnlyAtRoundEnd ==
    [][RevealReturns =>
         IF arena'.round = arena.round + 1
         THEN Cardinality(RoundResults') = 1
         ELSE RoundResults' = {}]_vars

(***************************************************************************)
(* The command-line client (cli/v1/pvp.js)                                 *)
(***************************************************************************)

\* The names the client gives the moves and types 0, 1, 2; 1-indexed here.
CliMoves == <<"Fire", "Earth", "Water">>

\* The tip the client prints: <<strong, weak>> reads "strong is strong
\* against weak".
Tip == {<<"Fire", "Water">>, <<"Earth", "Fire">>, <<"Water", "Earth">>}

\* The move or type the client calls name.
IndexOf(name) == CHOOSE i \in 0..2 : CliMoves[i + 1] = name

\* C25: each advantage the client advertises holds in the effectiveness
\* matrix: the move named strong is super-effective (20 tenths) against a
\* defender of the type named weak, and so battle::attack deals twice the
\* damage of an effectiveness of 10 tenths, in every arena two players of
\* the client fight in.
C25_AdvertisedAdvantagesHold ==
    is_some(arena.player_two) =>
        \A t \in Tip :
            MOVES_EFFECTIVENESS[IndexOf(t[1]) + 1][IndexOf(t[2]) + 1] = 2 * EFF_SCALING

(***************************************************************************)
(* Claims about the command-line client, under ClientSpec                  *)
(***************************************************************************)

\* The step is the reveal transaction of the client c.
ClientReveals(c) ==
    clients[c].pc = "reveal" /\ clients'[c].pc = "await_result"

\* The step is the commit transaction of the client c.
ClientCommits(c) ==
    clients[c].pc = "commit" /\ clients'[c].pc = "await_moved"

\* The last commitment the client c submitted.
LastSubmitted(c) == submitted[c][Len(submitted[c])]

\* C26: for every move the client offers, the digest its commit submits is the
\* digest the arena's reveal recomputes from the arguments of its reveal: the
\* reveal of a client whose commit of this round the arena accepted is never
\* rejected with EInvalidCommitment, and while the arena has no winner and it
\* is the player's turn it returns.
C26_ClientRevealMatchesItsCommit ==
    [][\A c \in Clients :
          (/\ ClientReveals(c)
           /\ submitted[c] # << >>
           /\ LastSubmitted(c).abort = NoAbort
           /\ LastSubmitted(c).round = arena.round) =>
              /\ last'.abort # EInvalidCommitment
              /\ (is_none(arena.winner) /\ PlayerOf(arena, c).next_round = arena.round)
                    => last'.abort = NoAbort]_vars

C26_Witness ==
    /\ cli # "none"
    /\ last.op = "reveal" /\ last.abort = NoAbort
    /\ clients[last.sender].pc = "await_result"
    /\ LastSubmitted(last.sender).abort = NoAbort

\* C27: a client never uses the same salt for two commitments: the salts of
\* any two commitments a client has submitted differ, and so do the salts of
\* the commitments of the two clients.
C27_ClientNeverReusesASalt ==
    /\ \A c \in Clients : \A i, j \in 1..Len(submitted[c]) :
          i # j => submitted[c][i].salt # submitted[c][j].salt
    /\ \A c, d \in Clients : \A i \in 1..Len(submitted[c]), j \in 1..Len(submitted[d]) :
          c # d => submitted[c][i].salt # submitted[d][j].salt

\* The number of commitments of the client c the arena has accepted.
AcceptedCommits(c) ==
    Cardinality({i \in 1..Len(submitted[c]) : submitted[c][i].abort = NoAbort})

\* C28: in fullRound a client submits its reveal only after it has submitted
\* its own commit of that round of play (its n-th), and after the opponent's
\* commit of the same round of play has been accepted, which the client has
\* observed: the opponent is no longer free to choose.
C28_RevealOnlyAfterBothCommits ==
    [][\A c \in Clients :
          ClientReveals(c) =>
              /\ Len(submitted[c]) = clients[c].n + 1
              /\ LastSubmitted(c).n = clients[c].n
              /\ clients[c].moved
              /\ AcceptedCommits(OpponentAccount(c)) >= clients[c].n + 1]_vars

\* A client has revealed in its second round of play.
C28_Witness ==
    /\ cli # "none"
    /\ last.op = "reveal"
    /\ clients[last.sender].pc = "await_result"
    /\ clients[last.sender].n = 1
    /\ AcceptedCommits(OpponentAccount(last.sender)) >= 2

\* The number of reveals of the account s the arena has accepted in the rounds
\* r and above.
RECURSIVE RevealsFrom(_, _)
RevealsFrom(s, r) ==
    IF r > MaxRound THEN 0
    ELSE (IF <<s, r>> \in DOMAIN revealed THEN revealed[<<s, r>>] ELSE 0)
         + RevealsFrom(s, r + 1)

\* The step ends the client c's wait for the result of the round: it reports
\* the result, and exits or returns for the next round.
ClientReports(c) ==
    clients[c].pc = "await_result" /\ clients'[c].pc \in {"listen", "exit"}

\* C29: in fullRound a client reports the result of its n-th round and moves
\* on or exits only after the reveals of both players for that round have been
\* applied to the arena (or the arena has a winner), and it never submits the
\* commit of its n-th round while arena.round is still below n.
C29_NextRoundOnlyAfterBothReveals ==
    [][\A c \in Clients :
          /\ ClientReports(c) =>
                \/ is_some(arena.winner)
                \/ /\ RevealsFrom(c, 0) >= clients[c].n + 1
                   /\ RevealsFrom(OpponentAccount(c), 0) >= clients[c].n + 1
          /\ ClientCommits(c) =>
                is_some(arena.winner) \/ arena.round >= clients[c].n]_vars

\* The client c waits in fullRound, for the opponent's commit or for the
\* result of the round.
Waiting(c) ==
    \/ clients[c].pc = "await_moved" /\ ~clients[c].moved
    \/ clients[c].pc = "await_result" /\ clients[c].result = "none"

\* The opponent of c has done what c waits for: its commit, or its reveal, of
\* the round of play c is in has been accepted.
OpponentHasActed(c) ==
    \/ /\ clients[c].pc = "await_moved"
       /\ AcceptedCommits(OpponentAccount(c)) >= clients[c].n + 1
    \/ /\ clients[c].pc = "await_result"
       /\ RevealsFrom(OpponentAccount(c), 0) >= clients[c].n + 1

\* The client c takes no step: it has exited, or it waits and neither an
\* event it has heard nor the arena it would fetch ends its wait.
Blocked(c) ==
    \/ clients[c].pc = "exit"
    \/ /\ clients[c].pc = "await_moved" /\ ~clients[c].moved
       /\ cli = "polling" => ~p2Moved(c, arena)
    \/ /\ clients[c].pc = "await_result" /\ clients[c].result = "none"
       /\ cli = "polling" => ~p2Revealed(arena, clients[c].initial_history)

\* C31: a client that waits for what its opponent has already done is
\* released: it is never left waiting in a state in which neither client
\* takes a step any more, where no transaction, no event and no change of the
\* arena can end its wait.
C31_WaitingClientIsReleased ==
    \A c \in Clients :
        (Waiting(c) /\ OpponentHasActed(c)) => ~(\A d \in Clients : Blocked(d))


(***************************************************************************)
(* Termination, under FairSpec                                             *)
(***************************************************************************)

\* Some commit or some reveal of a move 0, 1, 2 would be accepted.
SomeOperationAccepted ==
    \/ \E sender \in Senders, commitment \in PlayersCommitments :
          commit(arena, commitment, sender).abort = NoAbort
    \/ \E sender \in Senders, move \in 0..2, salt \in Salts :
          reveal(arena, move, salt, sender).abort = NoAbort

\* C30: with both players taking every commit and every correctly salted
\* reveal of a valid move the arena accepts, an arena in progress is never
\* stuck: while it has no winner (and the rounds explored are not used up),
\* some operation is accepted, so that the play goes on to a winner.
C30_InProgressNeverStuck ==
    (is_some(arena.player_two) /\ is_none(arena.winner) /\ arena.round < MaxRound)
        => SomeOperationAccepted

(***************************************************************************)
(* Invariants of the arena, under Spec                                     *)
(***************************************************************************)

\* The Player records of the arena.
Players(a) ==
    {a.player_one} \cup (IF is_some(a.player_two) THEN {borrow(a.player_two)} ELSE {})

\* C32: once player two is present, each player's next_round is arena.round
\* or arena.round + 1, and it is arena.round + 1 exactly when the player has
\* revealed in the current round.
C32_NextRoundTracksReveal ==
    is_some(arena.player_two) =>
        \A p \in Players(arena) :
            /\ p.next_round \in {arena.round, arena.round + 1}
            /\ (p.next_round = arena.round + 1) <=> HasRevealed(p.account, arena.round)

\* One player has revealed in the current round, the other has not.
C32_Witness ==
    /\ is_some(arena.player_two)
    /\ arena.round = 1
    /\ arena.player_one.next_round = 2
    /\ borrow(arena.player_two).next_round = 1
    /\ HasRevealed(arena.player_one.account, 1)


\* The players of the arena whose hp is 0.
KnockedOut(a) == {p \in Players(a) : p.stats.hp = << >>}

\* C33: the winner is set if and only if exactly one player's hp is 0; the
\* winner is then the player whose hp is above 0; and the hp of the two
\* players are never both 0.
C33_WinnerIffOneKnockedOut ==
    /\ is_some(arena.winner) <=> Cardinality(KnockedOut(arena)) = 1
    /\ is_some(arena.winner) =>
          /\ borrow(arena.winner) \in Participants
          /\ PlayerOf(arena, borrow(arena.winner)) \notin KnockedOut(arena)
    /\ Cardinality(KnockedOut(arena)) <= 1

\* Player two has knocked out player one.
C33_Witness ==
    /\ is_some(arena.winner)
    /\ borrow(arena.winner) = borrow(arena.player_two).account
    /\ KnockedOut(arena) = {arena.player_one}


\* The step is a reveal of the account s that returned.
RevealReturnsFor(s) ==
    last'.op = "reveal" /\ last'.abort = NoAbort /\ last'.sender = s

\* C34: a pending commitment is removed or overwritten only by a reveal of
\* its owner that returns: every other step (a commit or a reveal of the
\* opponent, a join, a call that aborts, a further commit of the owner)
\* leaves it as it is.
C34_PendingCommitmentOnlyRemovedByOwnersReveal ==
    [][\A s \in Participants :
          (is_some(PlayerOf(arena, s).next_attack) /\ ~RevealReturnsFor(s)) =>
              PlayerOf(arena', s).next_attack = PlayerOf(arena, s).next_attack]_vars

\* The opponent of a player with a pending commitment has revealed.
C34_Witness ==
    /\ InProgress
    /\ last.op = "reveal" /\ last.abort = NoAbort
    /\ last.sender \in Participants
    /\ is_some(OpponentOf(arena, last.sender).next_attack)


\* The account s holds a pending commitment that is the digest of the byte m,
\* which is no move, and the salt.
CommittedToNoMove(s, m, salt) ==
    /\ m \notin 0..2
    /\ s \in Participants
    /\ is_some(PlayerOf(arena, s).next_attack)
    /\ hashed_move(m, salt) = borrow(PlayerOf(arena, s).next_attack)

\* C35 as stated: every such reveal aborts with EWrongMove and leaves hp, the
\* pending commitments, next_round and round unchanged.
C35_NoMoveAlwaysWrongMove ==
    \A s \in Senders, m \in Moves, salt \in Salts :
        CommittedToNoMove(s, m, salt) =>
            /\ reveal(arena, m, salt, s).abort = EWrongMove
            /\ SameBattleState(reveal(arena, m, salt, s).arena, arena)

\* C35 as amended: every reveal of a byte that is no move aborts and leaves
\* hp, the pending commitments, next_round and round unchanged; and when its
\* digest equals the stored commitment, the arena has no winner and it is the
\* sender's turn to reveal, the abort is EWrongMove.  Every arena is first
\* seen as the result of an accepted call, and is examined there.
C35_NoMoveWrongMoveInTurn ==
    last.abort = NoAbort =>
        \A s \in Senders, m \in Moves \ (0..2), salt \in Salts :
            LET res == reveal(arena, m, salt, s)
            IN  /\ res.abort # NoAbort
                /\ SameBattleState(res.arena, arena)
                /\ (/\ CommittedToNoMove(s, m, salt)
                    /\ is_none(arena.winner)
                    /\ PlayerOf(arena, s).next_round = arena.round) =>
                       res.abort = EWrongMove

\* A reveal of the byte committed to, which is no move, was rejected.
C35_Witness ==
    /\ last.op = "reveal" /\ last.abort = EWrongMove
    /\ CommittedToNoMove(last.sender, 3, SALT)
    /\ is_none(arena.winner)


\* battle::attack of a on d deals a damage above 0 and leaves the defender
\* with less hp than before.
HitIsPositive(a, d, m, rng) ==
    LET hit == attack(a, d, m, rng)
    IN  /\ hit.abort = NoAbort
        /\ hit.damage # << >>
        /\ BigLt(hit.defender.hp, d.hp)

\* C36: every reveal that returns deals a damage above 0, and the defender's
\* hp after it is strictly lower than before it.  The damage is examined when
\* the second player joins: for every generated attack and defence with the
\* lowest random byte, every move and every type of the defender, the
\* attacker's type being another than the move; and for the lowest attack
\* against the highest defence with every random byte and every combination
\* of move and types.
C36_RevealDealsPositiveDamage ==
    [][/\ (last.op = "new" /\ last'.op = "join" /\ last'.abort = NoAbort) =>
             /\ \A atk \in SmoothValues, def \in SmoothValues, m \in 0..2, dt \in 0..2 :
                   HitIsPositive(StatsWith(25, atk, 25, (m + 1) % 3),
                                 StatsWith(25, 25, def, dt), m, 217)
             /\ \A rng \in 217..255, m \in 0..2, at \in 0..2, dt \in 0..2 :
                   HitIsPositive(StatsWith(25, 25, 25, at), StatsWith(25, 25, 49, dt), m, rng)
       /\ RevealReturns =>
             LET s == last'.sender
             IN  BigLt(OpponentOf(arena', s).stats.hp, OpponentOf(arena, s).stats.hp)]_vars

\* A reveal has returned and left the defender with less than the starting hp
\* and more than 0.
C36_Witness ==
    /\ last.op = "reveal" /\ last.abort = NoAbort
    /\ is_none(arena.winner)
    /\ BigLt(OpponentOf(arena, last.sender).stats.hp,
             OpponentOf(arena, last.sender).starting_hp)


\* The player q is the player p, but for the hp, the pending commitment and
\* next_round: the account, the starting hp and every stat other than hp are
\* those of p.
SamePlayer(p, q) ==
    /\ q.account = p.account
    /\ q.starting_hp = p.starting_hp
    /\ [q.stats EXCEPT !.hp = << >>] = [p.stats EXCEPT !.hp = << >>]

\* C38: no step changes the seed, player one's account, player two's account
\* once set, or a player's starting hp or stats other than hp: they keep the
\* values they had when the player was created; and a player's hp is at most
\* their starting hp.
C38_IdentityAndStatsAreFixed ==
    [][/\ arena'.seed = arena.seed
       /\ arena'.id = arena.id
       /\ SamePlayer(arena.player_one, arena'.player_one)
       /\ is_some(arena.player_two) =>
             /\ is_some(arena'.player_two)
             /\ SamePlayer(borrow(arena.player_two), borrow(arena'.player_two))
       /\ \A p \in Players(arena') : BigLeq(p.stats.hp, p.starting_hp)]_vars

\* Both players have been hit.
C38_Witness ==
    /\ is_some(arena.player_two)
    /\ \A p \in Players(arena) : BigLt(p.stats.hp, p.starting_hp)


(***************************************************************************)
(* The length of a game, under GameSpec                                    *)
(***************************************************************************)

\* The length of the digest hit_rng indexes with the round.
DigestLength == 32

\* The damage of the move m at the lowest random byte, for an attacker of
\* another type than the move.
LowestDamage(atk, def, m, dt) ==
    attack(StatsWith(25, atk, 25, (m + 1) % 3), StatsWith(49, 25, def, dt), m, 217).damage

\* n hits knock out the highest generated hp, whatever the attack, the
\* defence, the moves and the types; and a higher random byte than the lowest
\* does not lower the damage.
HitsKnockOut(n) ==
    /\ \A atk \in SmoothValues, def \in SmoothValues, m \in 0..2, dt \in 0..2 :
          BigLeq(StatsWith(49, 25, def, dt).hp,
                 BigMulSmall(LowestDamage(atk, def, m, dt), n))
    /\ \A rng \in 217..255, m \in 0..2, at \in 0..2, dt \in 0..2 :
          BigLeq(attack(StatsWith(25, 25, 25, at), StatsWith(49, 25, 49, dt), m, 217).damage,
                 attack(StatsWith(25, 25, 25, at), StatsWith(49, 25, 49, dt), m, rng).damage)

\* C37: arena.round and both next_round counters stay below 32, the length of
\* the digest hit_rng indexes, which is then always in range: every round
\* that is over has seen a reveal, and so a hit, of each player; with
\* generated stats 25 hits knock out any player; so no game goes past round
\* 25.
C37_RoundsBelowDigestLength ==
    /\ arena.round < DigestLength
    /\ \A p \in Players(arena) : p.next_round < DigestLength
    /\ hit_rng(arena.seed, 2, arena.round).abort = NoAbort
    /\ arena.round <= 25
    /\ \A p \in Players(arena), r \in 0..(arena.round - 1) : HasRevealed(p.account, r)
    /\ last.op = "new" => HitsKnockOut(25)

\* A game in its sixth round, without a winner yet.
C37_Witness ==
    /\ arena.round = 5
    /\ is_none(arena.winner)
    /\ last.op = "reveal" /\ last.abort = NoAbort


(***************************************************************************)
(* Claims about the player-vs-bot arena, under ArenaSpec                   *)
(***************************************************************************)

\* The player's or the bot's hp is 0.
SomeoneIsDown(a) == a.player_stats.hp = << >> \/ a.bot_stats.hp = << >>

\* C39: is_over is true exactly when the player's or the bot's hp is 0; it
\* never returns to false; every attack on an arena that is over aborts and
\* leaves hp, round and is_over (the whole arena) unchanged; and every attack
\* that returns increases round by exactly 1.
C39_OverExactlyWhenSomeoneIsDown ==
    [][/\ arena.is_over <=> SomeoneIsDown(arena)
       /\ arena'.is_over <=> SomeoneIsDown(arena')
       /\ arena.is_over => arena'.is_over
       /\ arena.is_over =>
             /\ last'.abort = EArenaIsOver
             /\ arena' = arena
             /\ \A move \in Moves : arena_attack(arena, move) = Aborted(arena, EArenaIsOver)
       /\ last'.abort = NoAbort => arena'.round = arena.round + 1
       /\ last'.abort # NoAbort => arena' = arena]_vars

\* An attack on an arena that is over was rejected.
C39_Witness ==
    /\ last.op = "attack" /\ last.abort = EArenaIsOver
    /\ arena.is_over
    /\ arena.round > 1

\* C40: an attack that returns applies the player's hit to the bot and then
\* the bot's hit to the player, also when the player's hit has brought the
\* bot's hp to 0: the player's hp goes down in every such call; and when both
\* hp are 0 after the call, the client reports a win of the player.
C40_BothHitsAlwaysApplied ==
    \A move \in 0..2 :
        ~arena.is_over =>
            LET res    == arena_attack(arena, move)
                first  == attack(arena.player_stats, arena.bot_stats, move,
                                 arena_hit_rng(arena.seed, 3, arena.round).value)
                second == attack(first.defender, arena.player_stats,
                                 arena_hit_rng(arena.seed, 5, arena.round).value % 3,
                                 arena_hit_rng(arena.seed, 4, arena.round).value)
            IN  /\ res.abort = NoAbort
                /\ res.arena.bot_stats = first.defender
                /\ res.arena.player_stats = second.defender
                /\ BigLt(res.arena.bot_stats.hp, arena.bot_stats.hp)
                /\ BigLt(res.arena.player_stats.hp, arena.player_stats.hp)
                /\ (res.arena.bot_stats.hp = << >> /\ res.arena.player_stats.hp = << >>)
                      => cli_report(res.events[1]) = "You won!"

\* One call has brought both hp to 0, and the client reports a win.
C40_Witness ==
    /\ last.op = "attack" /\ last.abort = NoAbort
    /\ arena.player_stats.hp = << >>
    /\ arena.bot_stats.hp = << >>
    /\ cli_report(emitted[1]) = "You won!"


=============================================================================
